---- MODULE Spec2Model ----
(***************************************************************************)
(* A model of the signaltrain audio-effect engine:                         *)
(*   - helpers/audio.py    : int2knobs, Effect.knobs_wc / go / go_wc,      *)
(*                           compressor, compressor_new_fast, echo         *)
(*   - signaltrain/audio.py: gen_pluck, ta_oneproc, gen_timealign_pairs    *)
(*   - signaltrain/datasets.py: the knob normalisation of get_single_chunk *)
(*                              and SynthAudioDataSet.gen_single_chunk     *)
(*                                                                         *)
(* Numbers.  A finite number is an exact rational <<n, d>> with d > 0 in   *)
(* lowest terms.  The IEEE specials that numpy produces are <<0, 0>> (nan),*)
(* <<1, 0>> (+inf) and <<-1, 0>> (-inf).  Rounding of binary floating      *)
(* point is not modelled: every finite result is the exact one.            *)
(***************************************************************************)
EXTENDS Integers, Sequences, FiniteSets, TLC

VARIABLES
    call,         \* the last int2knobs call: its arguments and its outcome
    kmap,         \* the last knob-mapping call (normalise / knobs_wc)
    mem,          \* the arrays alive in an effect call: array id -> samples
    ret,          \* the outcome of the last Effect.go / gen_single_chunk
    tacfg,        \* gen_timealign_pairs: its arguments and event_len
    workers,      \* ta_oneproc: one record per chunk index
    input_sigs,   \* gen_timealign_pairs: the input rows
    target_sigs   \* gen_timealign_pairs: the target rows

vars == <<call, kmap, mem, ret, tacfg, workers, input_sigs, target_sigs>>

(***************************************************************************)
(* Bounds of the model.                                                    *)
(***************************************************************************)
MaxKnobs == 2       \* int2knobs: knob lists of 0..MaxKnobs knobs
MaxSettings == 3    \* int2knobs: settings_per in 1..MaxSettings
IdxOver == 2        \* int2knobs: idx ranges up to settings_per^nk + IdxOver
GridSteps == 2      \* knob mapping: physical values min + j*(max-min)/GridSteps
MaxVecLen == 4      \* knobs_wc: normalised vectors of 0..MaxVecLen components
MaxLen == 2         \* effects: every signal of 1..MaxLen samples is an input
LongLen == 6        \* effects: one signal of each length MaxLen+1..LongLen too
TAChunk == 2        \* TimeAlign: its hard-coded chunk_size (4096), scaled down
MaxChunkSize == 20  \* gen_timealign_pairs: the largest chunk_size
MaxEvents == 3      \* gen_timealign_pairs: num_events in 0..MaxEvents
MaxWaves == 2       \* gen_pitch_shifted_pairs: num_waves in 0..MaxWaves
ItemLen == 3        \* datasets: chunk_size in 1..ItemLen, audio of up to ItemLen + 1
PluckLen == 4       \* plucks: time axes of PluckLen samples
MaxDepth == 3       \* generators: nested calls are followed to this depth
WinLen == 8         \* sliding_window: arrays of 1..WinLen samples
WinSize == 5        \* sliding_window: windows of 1..WinSize samples
MaxCalls == 5       \* readaudio_generator: next() and send() calls followed
MaxAugLen == 6      \* do_augment: len(x) in 1..MaxAugLen
MaxDraws == 4       \* the random draws of a call of ta_oneproc that are followed
\* the files preload_audio loads
PreFiles == 2
\* the longest time axis handed to the spikes generators
SpikeLen == 5
\* the most spikes of one signal
MaxSpikes == 2

(***************************************************************************)
(* Exact rational arithmetic with the IEEE specials.                       *)
(***************************************************************************)
Abs(n) == IF n < 0 THEN -n ELSE n

Sign(n) == IF n < 0 THEN -1 ELSE IF n > 0 THEN 1 ELSE 0

RECURSIVE GCD(_, _)
GCD(a, b) == IF b = 0 THEN a ELSE GCD(b, a % b)

\* the rational n/d (d # 0) in lowest terms with a positive denominator
Rat(n, d) ==
    LET g == GCD(Abs(n), Abs(d))
        s == IF d < 0 THEN -1 ELSE 1
    IN  <<(s * n) \div g, (s * d) \div g>>

I(n) == <<n, 1>>

NaN == <<0, 0>>

Inf(s) == <<s, 0>>

IsNaN(a) == a[2] = 0 /\ a[1] = 0

IsInf(a) == a[2] = 0 /\ a[1] # 0

IsFinite(a) == a[2] # 0

\* IEEE addition
RAdd(a, b) ==
    IF IsNaN(a) \/ IsNaN(b) THEN NaN
    ELSE IF IsInf(a) /\ IsInf(b) THEN (IF a[1] = b[1] THEN a ELSE NaN)
    ELSE IF IsInf(a) THEN a
    ELSE IF IsInf(b) THEN b
    ELSE LET g == GCD(a[2], b[2])
         IN  Rat(a[1] * (b[2] \div g) + b[1] * (a[2] \div g), (a[2] \div g) * b[2])

RNeg(a) == <<-a[1], a[2]>>

RSub(a, b) == RAdd(a, RNeg(b))

\* IEEE multiplication
RMul(a, b) ==
    IF IsNaN(a) \/ IsNaN(b) THEN NaN
    ELSE IF IsInf(a) \/ IsInf(b)
         THEN (IF a[1] = 0 \/ b[1] = 0 THEN NaN ELSE Inf(Sign(a[1]) * Sign(b[1])))
    ELSE Rat(a[1] * b[1], a[2] * b[2])

\* IEEE division, as numpy does it on arrays: x/0 is +-inf, 0/0 is nan
RDiv(a, b) ==
    IF IsNaN(a) \/ IsNaN(b) THEN NaN
    ELSE IF IsInf(a) THEN (IF IsInf(b) THEN NaN
                           ELSE Inf(a[1] * (IF b[1] < 0 THEN -1 ELSE 1)))
    ELSE IF IsInf(b) THEN I(0)
    ELSE IF b[1] = 0 THEN (IF a[1] = 0 THEN NaN ELSE Inf(Sign(a[1])))
    ELSE Rat(a[1] * b[2], a[2] * b[1])

\* IEEE ==: nan equals nothing, itself included
FEq(a, b) == ~IsNaN(a) /\ ~IsNaN(b) /\ a = b

\* a < b and a <= b on finite numbers
RLt(a, b) == LET g == GCD(a[2], b[2]) IN a[1] * (b[2] \div g) < b[1] * (a[2] \div g)

RLe(a, b) == LET g == GCD(a[2], b[2]) IN a[1] * (b[2] \div g) <= b[1] * (a[2] \div g)

\* Python int(): truncation towards zero of a finite number
Trunc(a) == Sign(a[1]) * (Abs(a[1]) \div a[2])

RECURSIVE Pow(_, _)
Pow(b, e) == IF e = 0 THEN 1 ELSE b * Pow(b, e - 1)

(***************************************************************************)
(* int2knobs (helpers/audio.py).                                           *)
(***************************************************************************)
\* [min, max] pairs the knob lists are drawn from: the docstring's examples
\* ([0,9] scaled to [0,3], [1,6], [-0.5,0.5]), a unit range, and the two
\* ranges Echo declares with min = max.
RangeChoices ==
    { <<I(0), I(3)>>, <<I(1), I(6)>>, <<Rat(-1, 2), Rat(1, 2)>>, <<I(0), I(1)>>,
      <<I(400), I(400)>>, <<I(2), I(2)>> }

RECURSIVE SeqsOf(_, _)
SeqsOf(S, n) ==
    IF n = 0 THEN { <<>> }
    ELSE { Append(s, e) : s \in SeqsOf(S, n - 1), e \in S }

SeqsUpTo(S, n) == UNION { SeqsOf(S, k) : k \in 0..n }

\* Python's / on two numbers: a ZeroDivisionError when the divisor is 0
PyFloorDiv(a, b) ==
    IF b[1] = 0 THEN [err |-> "ZeroDivisionError", val |-> NaN]
    ELSE LET q == Rat(a[1] * b[2], a[2] * b[1])
         IN  [err |-> "none",
              val |-> I(IF q[1] >= 0 THEN q[1] \div q[2]
                        ELSE -((-q[1] + q[2] - 1) \div q[2]))]

PyTrueDiv(a, b) ==
    IF b[1] = 0 THEN [err |-> "ZeroDivisionError", val |-> NaN]
    ELSE [err |-> "none", val |-> Rat(a[1] * b[2], a[2] * b[1])]

\* line 467: assert idx < sp**nk
IdxOffByOne(idx, sp, nk) == idx <= Pow(sp, nk)

IdxInRange(idx, sp, nk) == idx < Pow(sp, nk)

\* line 472: ik = nk-1-i (0-based index of the knob the digit of sp**i sets)
KnobIndexSame(nk, i) == i

KnobIndex(nk, i) == nk - 1 - i

\* lines 469-475: the loop, from i down to 0, with the running idx and the
\* knobs appended so far; kr is 1-based, so knob ik of the code is kr[ik + 1]
RECURSIVE Int2KnobsLoop(_, _, _, _, _)
Int2KnobsLoop(i, idx, kr, sp, knobs) ==
    IF i < 0 THEN [err |-> "none", knobs |-> knobs]
    ELSE LET nk      == Len(kr)
             sp_pow  == Pow(sp, i)
             setting == idx \div sp_pow
             ik      == KnobIndex(nk, i)
             dkval   == PyTrueDiv(RSub(kr[ik + 1][2], kr[ik + 1][1]), I(sp - 1))
         IN  IF dkval.err # "none"
             THEN [err |-> dkval.err, knobs |-> <<>>]
             ELSE Int2KnobsLoop(i - 1, idx - setting * sp_pow, kr, sp,
                      Append(knobs, RAdd(kr[ik + 1][1], RMul(dkval.val, I(setting)))))

\* lines 466-476: the whole function; an error returns no knobs
Int2Knobs(idx, kr, sp) ==
    IF ~IdxInRange(idx, sp, Len(kr))
    THEN [err |-> "AssertionError", knobs |-> <<>>]
    ELSE Int2KnobsLoop(Len(kr) - 1, idx, kr, sp, <<>>)

NoCall == [done |-> FALSE]

\* one call of int2knobs with arguments drawn from the bounded sets
CallInt2Knobs ==
    /\ ~call.done
    /\ \E kr \in SeqsUpTo(RangeChoices, MaxKnobs), sp \in 1..MaxSettings :
         \E idx \in 0..(Pow(sp, Len(kr)) + IdxOver) :
            LET r == Int2Knobs(idx, kr, sp)
            IN  call' = [done |-> TRUE, idx |-> idx, kr |-> kr, sp |-> sp,
                         err |-> r.err, knobs |-> r.knobs]
    /\ UNCHANGED <<kmap, mem, ret, tacfg, workers, input_sigs, target_sigs>>

IdleKnobs == call = NoCall

IdleMap == kmap = NoCall

IdleEffect == mem = <<>> /\ ret = NoCall

IdleTA == tacfg = NoCall /\ workers = <<>> /\ input_sigs = <<>> /\ target_sigs = <<>>

InitKnobs == IdleKnobs /\ IdleMap /\ IdleEffect /\ IdleTA

NextKnobs == CallInt2Knobs

SpecKnobs == InitKnobs /\ [][NextKnobs]_vars

(***************************************************************************)
(* The effects and their knobs (helpers/audio.py, lines 311-435).          *)
(***************************************************************************)
Effects ==
    {"Compressor", "Compressor_4c", "Echo", "PitchShifter", "Denoise",
     "TimeAlign", "LowPass"}

\* self.knob_ranges of each effect's __init__: one <<min, max>> per knob
knob_ranges(e) ==
    CASE e = "Compressor"    -> << <<I(-30), I(0)>>, <<I(1), I(5)>>, <<I(10), I(2048)>> >>
      [] e = "Compressor_4c" -> << <<I(-30), I(0)>>, <<I(1), I(5)>>,
                                   <<Rat(1, 1000), Rat(4, 100)>>,
                                   <<Rat(1, 1000), Rat(4, 100)>> >>
      [] e = "Echo"          -> << <<I(400), I(400)>>, <<Rat(4, 10), I(1)>>, <<I(2), I(2)>> >>
      [] e = "PitchShifter"  -> << <<I(-12), I(12)>> >>
      [] e = "Denoise"       -> << <<Rat(1, 100), Rat(1, 2)>> >>
      [] e = "TimeAlign"     -> << <<Rat(1, 1000), Rat(1, 2)>> >>
      [] e = "LowPass"       -> << <<I(10), I(2000)>> >>
      [] e = "Effect"        -> << <<I(0), I(1)>> >>      \* the super-class, line 319

\* self.is_inverse
is_inverse(e) == e \in {"Denoise", "TimeAlign"}

\* kr[:,0] and kr[:,1] as numpy vectors
Column(kr, c) == [shape |-> <<Len(kr)>>, data |-> [k \in 1..Len(kr) |-> kr[k][c]]]

(***************************************************************************)
(* numpy values of dimension 0 or 1: [shape, data], shape <<>> for a       *)
(* scalar (data of length 1) and <<m>> for a vector of m components.       *)
(***************************************************************************)
NpScalar(v) == [shape |-> <<>>, data |-> <<v>>]

NpVector(d) == [shape |-> <<Len(d)>>, data |-> d]

NpLen(a) == IF a.shape = <<>> THEN 1 ELSE a.shape[1]

\* numpy's broadcasting rule for two shapes of dimension <= 1
Broadcasts(a, b) ==
    \/ a.shape = <<>>
    \/ b.shape = <<>>
    \/ a.shape[1] = b.shape[1]
    \/ a.shape[1] = 1
    \/ b.shape[1] = 1

BroadcastShape(a, b) ==
    IF a.shape = <<>> THEN b.shape
    ELSE IF b.shape = <<>> THEN a.shape
    ELSE IF a.shape[1] = 1 THEN b.shape
    ELSE a.shape

\* element k of a stretched to n components
Stretch(a, k) == IF NpLen(a) = 1 THEN a.data[1] ELSE a.data[k]

\* an elementwise binary operation; err is the ValueError numpy raises for
\* operands that cannot be broadcast together.  An operand that is already
\* an error passes it on (the exception propagates).
NpBin(Op(_, _), a, b) ==
    IF a.shape = <<-1>> THEN a
    ELSE IF b.shape = <<-1>> THEN b
    ELSE IF ~Broadcasts(a, b) THEN [shape |-> <<-1>>, data |-> <<>>]
    ELSE LET sh == BroadcastShape(a, b)
             n  == IF sh = <<>> THEN 1 ELSE sh[1]
         IN  [shape |-> sh, data |-> [k \in 1..n |-> Op(Stretch(a, k), Stretch(b, k))]]

NpIsError(a) == a.shape = <<-1>>

Half == Rat(1, 2)

\* Effect.knobs_wc, line 324:
\*   (kr[:,0] + (knobs_nn+0.5)*(kr[:,1]-kr[:,0])).tolist()
Effect_knobs_wc(e, knobs_nn) ==
    LET kr  == knob_ranges(e)
        t1  == NpBin(RAdd, knobs_nn, NpScalar(Half))
        t2  == NpBin(RSub, Column(kr, 2), Column(kr, 1))
        t3  == NpBin(RMul, t1, t2)
    IN  NpBin(RAdd, Column(kr, 1), t3)

\* AudioFileDataSet.get_single_chunk, lines 221-222:
\*   knobs_nn = (knobs_wc - kr[:,0])/(kr[:,1]-kr[:,0]) - 0.5
Normalize(e, knobs_w) ==
    LET kr == knob_ranges(e)
        t1 == NpBin(RSub, knobs_w, Column(kr, 1))
        t2 == NpBin(RSub, Column(kr, 2), Column(kr, 1))
        t3 == NpBin(RDiv, t1, t2)
    IN  NpBin(RSub, t3, NpScalar(Half))

\* the physical knob vectors of effect e on the grid of GridSteps steps
\* between min and max, both endpoints included
PhysicalVectors(e) ==
    LET kr == knob_ranges(e)
    IN  { [k \in 1..Len(kr) |->
              RAdd(kr[k][1], RDiv(RMul(I(j[k]), RSub(kr[k][2], kr[k][1])), I(GridSteps)))]
          : j \in [1..Len(kr) -> 0..GridSteps] }

\* the normalised values a vector handed to knobs_wc is built from
NormChoices == {Rat(-1, 2), I(0), Rat(1, 2)}

\* normalised inputs: a scalar, or a vector of 0..MaxVecLen components
NormInputs ==
    { NpScalar(v) : v \in NormChoices }
        \cup { NpVector(d) : d \in SeqsUpTo(NormChoices, MaxVecLen) }

\* get_single_chunk's normalisation of a physical vector read from a file
\* name, followed by Effect.knobs_wc on the result
NormalizeRoundTrip ==
    /\ ~kmap.done
    /\ \E e \in Effects : \E v \in PhysicalVectors(e) :
          LET nn  == Normalize(e, NpVector(v))
              out == Effect_knobs_wc(e, nn)
          IN  kmap' = [done |-> TRUE, op |-> "roundtrip", effect |-> e,
                       knobs_in |-> NpVector(v), knobs_nn |-> nn, knobs_out |-> out]
    /\ UNCHANGED <<call, mem, ret, tacfg, workers, input_sigs, target_sigs>>

\* one call of Effect.knobs_wc with a normalised input of any shape
CallKnobsWc ==
    /\ ~kmap.done
    /\ \E e \in Effects : \E nn \in NormInputs :
          kmap' = [done |-> TRUE, op |-> "knobs_wc", effect |-> e,
                   knobs_in |-> nn, knobs_nn |-> nn, knobs_out |-> Effect_knobs_wc(e, nn)]
    /\ UNCHANGED <<call, mem, ret, tacfg, workers, input_sigs, target_sigs>>

InitMap == IdleKnobs /\ IdleMap /\ IdleEffect /\ IdleTA

NextMap == NormalizeRoundTrip \/ CallKnobsWc

SpecMap == InitMap /\ [][NextMap]_vars

(***************************************************************************)
(* Signals and the array heap.  mem is the sequence of the arrays that     *)
(* have an identity in a call (the caller's x, every array the code writes *)
(* in place, every array it returns); an array's id is its index in mem.   *)
(* A Python index i is the TLA+ index i + 1.                               *)
(***************************************************************************)
\* the sample values input signals and generated signals are built from
SampleChoices == {I(-1), I(0), Rat(1, 2)}

\* the sample values a library call's result is built from
OutChoices == {I(0), Rat(1, 2)}

\* the sample values of the signal TimeAlign synthesizes
TargetChoices == {I(-1), Rat(1, 2)}

\* values of 2*np.random.rand() - 1, which lies in [-1, 1)
NoiseChoices == {I(-1), I(0), Rat(1, 2)}

ShiftChoices == {I(-1), Rat(-1, 2), I(0), Rat(1, 2), Rat(9, 10)}

LongSignal(n) == [i \in 1..n |-> IF i % 2 = 1 THEN Rat(1, 2) ELSE I(-1)]

XInputs ==
    UNION { SeqsOf(SampleChoices, n) : n \in 1..MaxLen }
        \cup { LongSignal(n) : n \in (MaxLen + 1)..LongLen }

Zeros(n) == [i \in 1..n |-> I(0)]

\* a new array holding data; its id is Len(m) + 1
Alloc(m, data) == Append(m, data)

\* 20*log10(a + eps) for a >= 0 on the model's amplitudes {0, 1/2, 1}:
\* 20*log10(1/2) = -6.02 is taken as -6, 20*log10(1 + eps) as 0, and
\* 20*log10(eps) is eps_dB (-120 for 1e-6, -160 for 1e-8)
Log10dB(a, eps_dB) ==
    IF a[1] = 0 THEN I(eps_dB)
    ELSE IF RLt(a, I(1)) THEN I(-6)
    ELSE I(0)

\* a rational stand-in for exp(z): 1/(1 - z) for z <= 0 and 1 + z for z > 0.
\* It is exact at 0, increasing, below 1 for z < 0 and above 1 for z > 0.
ExpApprox(z) ==
    IF RLe(z, I(0)) THEN RDiv(I(1), RSub(I(1), z)) ELSE RAdd(I(1), z)

\* the reciprocal conversion, 10^(-g/20)
Pow10Div20Inverted(g) == ExpApprox(RMul(RNeg(g), Rat(23, 200)))

\* np.power(10.0, g/20) = exp(g * ln(10)/20), with ln(10)/20 taken as 23/200
Pow10Div20(g) == ExpApprox(RMul(g, Rat(23, 200)))

\* a curve that moves every level towards thresh, those below it too
StaticCurveAll(v, thresh, ratio) ==
    [n \in 1..Len(v) |-> RAdd(thresh, RDiv(RSub(v[n], thresh), ratio))]

\* np.where(v > thresh); v[i] = thresh + (v[i] - thresh)/ratio
\* (compressor line 233-234, on out_env)
StaticCurve(v, thresh, ratio) ==
    [n \in 1..Len(v) |->
        IF RLt(thresh, v[n]) THEN RAdd(thresh, RDiv(RSub(v[n], thresh), ratio))
        ELSE v[n]]

\* 20*np.log10(np.abs(x) + 1e-6), line 230
LevelsdB(x) == [n \in 1..Len(x) |-> Log10dB(<<Abs(x[n][1]), x[n][2]>>, -120)]

\* the envelopes scipy's butter(1, 1/attack), lfilter_zi and lfilter(b, a,
\* dB, zi=zi*dB[0]) may return for the levels dB (lines 227-231; library
\* code).  A first-order Butterworth low-pass started in its steady state
\* for dB[0] returns dB[0] first and then weighted means of the levels seen
\* so far: every envelope over EnvLevels within those limits is allowed.
EnvLevels == {I(-120), I(-20), I(-6), I(0)}

RECURSIVE Envelopes(_, _, _, _)
Envelopes(n, dB, lo, hi) ==
    IF n > Len(dB) THEN { <<>> }
    ELSE LET l == IF RLt(dB[n], lo) THEN dB[n] ELSE lo
             h == IF RLt(hi, dB[n]) THEN dB[n] ELSE hi
         IN  { <<v>> \o rest : v \in { w \in EnvLevels : RLe(l, w) /\ RLe(w, h) },
                               rest \in Envelopes(n + 1, dB, l, h) }

EnvelopesOf(dB) ==
    { <<dB[1]>> \o rest : rest \in Envelopes(2, dB, dB[1], dB[1]) }

\* compressor, lines 217-237, given the envelope in_env the filter returned.
\* Returns [mem, y]: the heap and the id of y.
compressor(m, x, thresh, ratio, in_env) ==
    LET m1      == Alloc(m, in_env)                    \* out_env = np.copy(in_env)
        out_env == Len(m1)
        m2      == [m1 EXCEPT ![out_env] = StaticCurve(in_env, thresh, ratio)]
        gain_dB == [n \in 1..Len(in_env) |-> RSub(m2[out_env][n], in_env[n])]
        m3      == Alloc(m2, [n \in 1..Len(in_env) |-> RMul(m[x][n], Pow10Div20(gain_dB[n]))])
    IN  [mem |-> m3, y |-> Len(m3), err |-> "none", gain_dB |-> gain_dB]

\* my_clip_min, lines 240-244: in place on array id
my_clip_min(m, id, clip_min) ==
    [m EXCEPT ![id] = [n \in 1..Len(m[id]) |->
                          IF RLt(m[id][n], clip_min) THEN clip_min ELSE m[id][n]]]

AbsInPlace(m, x) ==
    [mem |-> [m EXCEPT ![x] = [n \in 1..Len(m[x]) |-> <<Abs(m[x][n][1]), m[x][n][2]>>]],
     id |-> x]

\* np.abs(x).astype(dtype), line 267: a new array
AbsCopy(m, x) ==
    [mem |-> Alloc(m, [n \in 1..Len(m[x]) |-> <<Abs(m[x][n][1]), m[x][n][2]>>]),
     id |-> Len(m) + 1]

\* a smoothing loop that starts from the first gain change instead of
\* reading lin_A[-1]
RECURSIVE SmoothLoopSeeded(_, _, _, _, _)
SmoothLoopSeeded(n, lin_A, gainChange_dB, alphaA, alphaR) ==
    IF n > Len(gainChange_dB) THEN lin_A
    ELSE LET prev == IF n = 1 THEN gainChange_dB[1] ELSE lin_A[n - 1]
             a    == IF RLt(gainChange_dB[n], prev) THEN alphaA ELSE alphaR
             new  == RAdd(RMul(RSub(I(1), a), gainChange_dB[n]), RMul(a, prev))
         IN  SmoothLoopSeeded(n + 1, [lin_A EXCEPT ![n] = new], gainChange_dB, alphaA, alphaR)

\* lines 279-284: the smoothing loop, in place on lin_A, from index n on.
\* lin_A[n-1] at the first index is Python's lin_A[-1], the last element.
RECURSIVE SmoothLoop(_, _, _, _, _)
SmoothLoop(n, lin_A, gainChange_dB, alphaA, alphaR) ==
    IF n > Len(gainChange_dB) THEN lin_A
    ELSE LET prev == IF n = 1 THEN lin_A[Len(lin_A)] ELSE lin_A[n - 1]
             a    == IF RLt(gainChange_dB[n], prev) THEN alphaA ELSE alphaR
             new  == RAdd(RMul(RSub(I(1), a), gainChange_dB[n]), RMul(a, prev))
         IN  SmoothLoop(n + 1, [lin_A EXCEPT ![n] = new], gainChange_dB, alphaA, alphaR)

\* np.exp(-np.log(9)/(sr * t)), lines 263-264: a coefficient in (0, 1) that
\* grows with t.  The values (0.95 to 0.999 for the declared knob range) are
\* taken as 1/2 for t below 1/50 s and 3/4 from there on.
Alpha(t) == IF RLt(t, Rat(1, 50)) THEN Rat(1, 2) ELSE Rat(3, 4)

\* compressor_new_fast, lines 247-289
compressor_new_fast(m, x, thresh, ratio, attackTime, releaseTime) ==
    LET N      == Len(m[x])
        m1     == Alloc(m, Zeros(N))                    \* lin_A
        lin_A  == Len(m1)
        a2     == AbsCopy(m1, x)                        \* x_uni
        m3     == Alloc(a2.mem, [n \in 1..N |-> Log10dB(a2.mem[a2.id][n], -160)])
        x_dB   == Len(m3)
        m4     == my_clip_min(m3, x_dB, I(-96))
        gainChange_dB ==
            [n \in 1..N |->
                IF RLt(thresh, m4[x_dB][n])
                THEN RSub(RAdd(thresh, RDiv(RSub(m4[x_dB][n], thresh), ratio)), m4[x_dB][n])
                ELSE I(0)]
        m5     == [m4 EXCEPT ![lin_A] =
                      SmoothLoop(1, m4[lin_A], gainChange_dB, Alpha(attackTime),
                                 Alpha(releaseTime))]
        lin    == [n \in 1..N |-> Pow10Div20(m5[lin_A][n])]
        m6     == Alloc(m5, [n \in 1..N |-> RMul(lin[n], m5[x][n])])
    IN  [mem |-> m6, y |-> Len(m6), err |-> "none", gain_dB |-> m5[lin_A],
         x_dB |-> m4[x_dB], gainChange_dB |-> gainChange_dB]

\* floor of a finite number
Floor(a) == IF a[1] >= 0 THEN a[1] \div a[2] ELSE -((-a[1] + a[2] - 1) \div a[2])

\* int(np.round(a)): numpy rounds halves to the even integer
NpRoundInt(a) ==
    LET f == Floor(a)
        r == RSub(a, I(f))
    IN  IF RLt(r, Half) THEN f
        ELSE IF RLt(Half, r) THEN f + 1
        ELSE IF f % 2 = 0 THEN f ELSE f + 1

\* pow(a, e) for an integer e >= 0
RPow(a, e) == <<Pow(a[1], e), Pow(a[2], e)>>

\* np.pad(x, (d, 0), mode='constant')[0:-d]: x delayed by d samples; for
\* d = 0 the slice [0:-0] is empty
Delayed(x, d) ==
    IF d = 0 THEN <<>>
    ELSE [n \in 1..Len(x) |-> IF n <= d THEN I(0) ELSE x[n - d]]

\* lines 296-304: the echo loop from i on, in place on y
RECURSIVE EchoLoop(_, _, _, _, _, _, _)
EchoLoop(i, echoes, m, x, y, delay_samples, ratio) ==
    IF i >= echoes THEN [mem |-> m, y |-> y, err |-> "none"]
    ELSE LET ip1 == i + 1
             delay_length == RMul(I(ip1), delay_samples)
             delay_length_int == Floor(delay_length)
             diff == RSub(delay_length, I(delay_length_int))
             d1 == Delayed(m[x], delay_length_int)
             d2 == Delayed(m[x], delay_length_int + 1)
         IN  IF Len(d1) # Len(d2)
             THEN [mem |-> m, y |-> 0, err |-> "ValueError"]
             ELSE LET x_delayed == [n \in 1..Len(d1) |->
                                       RAdd(RMul(RSub(I(1), diff), d1[n]), RMul(diff, d2[n]))]
                  IN  EchoLoop(i + 1, echoes,
                               [m EXCEPT ![y] = [n \in 1..Len(m[y]) |->
                                   RAdd(m[y][n], RMul(RPow(ratio, ip1), x_delayed[n]))]],
                               x, y, delay_samples, ratio)

\* echo, lines 293-305
echo(m, x, delay_samples, ratio, echoes) ==
    LET m1 == Alloc(m, m[x])                            \* y = np.copy(x)
    IN  EchoLoop(0, NpRoundInt(I(echoes)), m1, x, Len(m1), delay_samples, ratio)

\* Denoise.go_wc, line 392: return x, x + knobs_w[0]*(2*np.random.random(N)-1)
DenoiseReturnSwapped(x, noisy) == <<noisy, x>>

DenoiseReturn(x, noisy) == <<x, noisy>>

Denoise(m, x, knobs_w, noise) ==
    LET m1 == Alloc(m, [n \in 1..Len(m[x]) |-> RAdd(m[x][n], RMul(knobs_w[1], noise[n]))])
        pr == DenoiseReturn(x, Len(m1))
    IN  [mem |-> m1, first |-> pr[1], second |-> pr[2], err |-> "none"]

\* np.roll(y, s): element i of the result is y[(i - s) mod N]
NpRoll(y, s) == [n \in 1..Len(y) |-> y[((n - 1 - s) % Len(y)) + 1]]

\* x[lo:hi] = np.zeros(cnt) for 0 <= lo <= hi: the slice is clipped to the
\* array, and numpy raises ValueError unless cnt zeros fit its length
\* (a single zero is broadcast)
ZeroFill(m, id, lo, hi, cnt) ==
    LET N   == Len(m[id])
        l   == IF lo > N THEN N ELSE lo
        h   == IF hi > N THEN N ELSE hi
        len == IF h > l THEN h - l ELSE 0
    IN  IF cnt # len /\ cnt # 1
        THEN [mem |-> m, err |-> "ValueError"]
        ELSE [mem |-> [m EXCEPT ![id] = [n \in 1..N |->
                                           IF n > l /\ n <= h THEN I(0) ELSE m[id][n]]],
              err |-> "none"]

\* Python's start of the slice x[-k:] for k > 0 on N elements
NegStart(N, k) == IF k > N THEN 0 ELSE N - k

\* TimeAlign.go_wc, line 417: return y, x
TimeAlignReturnSwapped(y, x) == <<x, y>>

TimeAlignReturn(y, x) == <<y, x>>

\* TimeAlign.go_wc, lines 408-417.  target is the signal synth_input_sample
\* returns for self.t (TAChunk samples, whichever chooser of [2,4,6,7] was
\* drawn); u is the draw 2*np.random.rand()-1.
TimeAlign(m, x, knobs_w, target, u) ==
    LET m1 == Alloc(m, target)
        y  == Len(m1)
        rand_shift == Trunc(RMul(RMul(I(Len(m[x])), knobs_w[1]), u))
        m2 == Alloc(m1, NpRoll(m1[y], rand_shift))       \* x = np.roll(y, rand_shift)
        x2 == Len(m2)
        N  == Len(m2[x2])
        z  == IF rand_shift > 0 THEN ZeroFill(m2, x2, 0, rand_shift, rand_shift)
              ELSE IF rand_shift < 0
                   THEN ZeroFill(m2, x2, NegStart(N, Abs(rand_shift)), N, Abs(rand_shift))
              ELSE [mem |-> m2, err |-> "none"]
        pr == TimeAlignReturn(y, x2)
    IN  IF z.err # "none" THEN [mem |-> z.mem, first |-> 0, second |-> 0, err |-> z.err]
        ELSE [mem |-> z.mem, first |-> pr[1], second |-> pr[2], err |-> "none"]

\* librosa.effects.pitch_shift and scipy_signal.lfilter: library code, which
\* returns a new array of the length of x; out is what it holds
External(m, x, out) ==
    LET m1 == Alloc(m, out)
    IN  [mem |-> m1, first |-> Len(m1), second |-> x, err |-> "none"]

\* what an effect draws at random, or gets from a library, for N samples
Draws(e, x0, N) ==
    CASE e = "Compressor" ->
            { [in_env |-> d] : d \in EnvelopesOf(LevelsdB(x0)) }
      [] e \in {"PitchShifter", "LowPass"} ->
            { [out |-> d] : d \in SeqsOf(OutChoices, N) }
      [] e = "Denoise" ->
            { [noise |-> d] : d \in SeqsOf(NoiseChoices, N) }
      [] e = "TimeAlign" ->
            { [target |-> t, u |-> u] : t \in SeqsOf(TargetChoices, TAChunk),
                                          u \in ShiftChoices }
      [] OTHER -> { [none |-> TRUE] }

\* go_wc of each effect (lines 348-435) on the array x with the physical
\* knobs knobs_w (1-based): the pair it returns is <<first, second>>
go_wc(e, m, x, knobs_w, draw) ==
    CASE e = "Compressor" ->
            LET r == compressor(m, x, knobs_w[1], knobs_w[2], draw.in_env)
            IN  [mem |-> r.mem, first |-> r.y, second |-> x, err |-> r.err]
      [] e = "Compressor_4c" ->
            LET r == compressor_new_fast(m, x, knobs_w[1], knobs_w[2], knobs_w[3], knobs_w[4])
            IN  [mem |-> r.mem, first |-> r.y, second |-> x, err |-> r.err]
      [] e = "Echo" ->
            LET r == echo(m, x, I(NpRoundInt(knobs_w[1])), knobs_w[2], NpRoundInt(knobs_w[3]))
            IN  [mem |-> r.mem, first |-> r.y, second |-> x, err |-> r.err]
      [] e \in {"PitchShifter", "LowPass"} -> External(m, x, draw.out)
      [] e = "Denoise" -> Denoise(m, x, knobs_w, draw.noise)
      [] e = "TimeAlign" -> TimeAlign(m, x, knobs_w, draw.target, draw.u)

\* Effect.go (lines 337-339) as SynthAudioDataSet.gen_single_chunk calls it
\* (datasets.py line 299: y, x = self.effect.go(x, knobs)) with a knob vector
\* of len(knob_ranges) components.  The caller's x is array 1; ret.y and
\* ret.x are the arrays the caller's y and x name afterwards.
Effect_go ==
    /\ ~ret.done
    /\ \E e \in Effects : \E x0 \in XInputs :
       \E nn \in SeqsOf(NormChoices, Len(knob_ranges(e))) : \E draw \in Draws(e, x0, Len(x0)) :
          LET knobs_w == Effect_knobs_wc(e, NpVector(nn))
              r       == go_wc(e, <<x0>>, 1, knobs_w.data, draw)
          IN  /\ mem' = r.mem
              /\ ret' = [done |-> TRUE, effect |-> e, x0 |-> x0, knobs_nn |-> nn,
                         knobs_w |-> knobs_w.data, draw |-> draw, err |-> r.err,
                         y |-> r.first, x |-> r.second]
    /\ UNCHANGED <<call, kmap, tacfg, workers, input_sigs, target_sigs>>

InitEffect == IdleKnobs /\ IdleMap /\ IdleEffect /\ IdleTA

NextEffect == Effect_go

SpecEffect == InitEffect /\ [][NextEffect]_vars

(***************************************************************************)
(* gen_timealign_pairs and ta_oneproc (signaltrain/audio.py, lines 66-112).*)
(* A row is a sequence of samples; a sample is <<0, 0>> (the zero the rows *)
(* are created with) or <<ev, j>>: sample j (0-based) of event ev, where   *)
(* ev = 1 is the base event and ev = 2 + eventnum an event of the loop.    *)
(* gen_pluck's random amplitude, frequency and decay are not modelled.     *)
(***************************************************************************)
Min(a, b) == IF a < b THEN a ELSE b

Max(a, b) == IF a > b THEN a ELSE b

ChunkSizes == {MaxChunkSize - 14, MaxChunkSize - 8, MaxChunkSize}

\* the values of num_chunks: one row, and two rows whose workers interleave
NumChunks == {1, 2}

Strengths == {I(0), Rat(1, 2), I(1)}

\* values of 2*np.random.random() - 1 drawn for the jitter
JitterChoices == {I(-1), Rat(9, 10)}

\* gen_pluck(length), lines 52-62: a tensor of `length` samples
gen_pluck(ev, length) == [j \in 1..Max(length, 0) |-> <<ev, j - 1>>]

\* Python's normalisation of a slice bound b on a sequence of L elements
SliceBound(L, b) == IF b < 0 THEN Max(b + L, 0) ELSE Min(b, L)

\* row[bgn:end] = src[0:cnt]: torch raises RuntimeError unless the source
\* slice has as many elements as the destination slice (or exactly one)
SliceAssign(row, bgn, end, src, cnt) ==
    LET L    == Len(row)
        b    == SliceBound(L, bgn)
        e    == SliceBound(L, end)
        dlen == Max(e - b, 0)
        slen == Max(SliceBound(Len(src), cnt) - 0, 0)
    IN  IF slen # dlen /\ slen # 1
        THEN [err |-> "RuntimeError", row |-> row]
        ELSE [err |-> "none",
              row |-> [n \in 1..L |->
                         IF n > b /\ n <= b + dlen
                         THEN (IF slen = 1 THEN src[1] ELSE src[n - b])
                         ELSE row[n]]]

\* line 78
grid_index(eventnum, event_len, chunk_size) ==
    Trunc(I(eventnum * event_len)) + Trunc(Rat(chunk_size, 2))

\* line 79
random_shift(event_len, u) == Trunc(RMul(Rat(event_len, 5), u))

\* line 82
target_index_grid(strength, grid, input) == grid

target_index_swapped(strength, grid, input) ==
    Trunc(RAdd(RMul(strength, I(input)), RMul(RSub(I(1), strength), I(grid))))

target_index(strength, grid, input) ==
    Trunc(RAdd(RMul(strength, I(grid)), RMul(RSub(I(1), strength), I(input))))

\* line 89
iinput_bgn(input_index) == Max(0, input_index)

NoIdx == [set |-> FALSE]

\* gen_timealign_pairs, lines 98-102, for each combination of arguments
InitTA ==
    /\ IdleKnobs /\ IdleMap /\ IdleEffect
    /\ \E chunk_size \in ChunkSizes, num_chunks \in NumChunks,
          num_events \in 0..MaxEvents, parallel \in BOOLEAN, strength \in Strengths :
          /\ tacfg = [done |-> TRUE, chunk_size |-> chunk_size, num_chunks |-> num_chunks,
                      num_events |-> num_events, parallel |-> parallel,
                      strength |-> strength,
                      event_len |-> Trunc(Rat(chunk_size, num_events + 1)),
                      result |-> "running"]
          /\ input_sigs = [c \in 1..num_chunks |-> [n \in 1..chunk_size |-> <<0, 0>>]]
          /\ target_sigs = [c \in 1..num_chunks |-> [n \in 1..chunk_size |-> <<0, 0>>]]
          /\ workers = [c \in 1..num_chunks |->
                           [pc |-> "start", eventnum |-> 0, idx |-> NoIdx, draws |-> <<>>]]

\* the call of ta_oneproc for chunk c may take a step: in the for loop of
\* line 110 the calls run one after the other and an exception ends the
\* loop; the ThreadPool of line 105 runs them in any interleaving
Scheduled(c) ==
    /\ tacfg.result = "running"
    /\ \/ tacfg.parallel
       \/ \A d \in 1..(c - 1) : workers[d].pc = "done"

\* the row target_sigs[chunk_index] / input_sigs[chunk_index] that the call
\* for chunk c indexes (lines 71-72, 87, 91)
RowShared(c) == 1

RowOf(c) == c

\* lines 70-72 on the rows trow, irow: the base event
BaseWrite(trow, irow) ==
    LET base_event == gen_pluck(1, Trunc(RMul(I(tacfg.event_len), Rat(3, 2))))
        t == SliceAssign(trow, 0, Len(base_event), base_event, Len(base_event))
        i == SliceAssign(irow, 0, Len(base_event), base_event, Len(base_event))
    IN  [target |-> t.row, input |-> IF t.err = "none" THEN i.row ELSE irow,
         ok |-> t.err = "none" /\ i.err = "none"]

\* lines 75-91 on the rows trow, irow: iteration eventnum of the loop, with
\* the draw u
EventWrite(eventnum, u, trow, irow) ==
    LET event_len    == tacfg.event_len
        sig_length   == tacfg.chunk_size
        event        == gen_pluck(2 + eventnum, event_len)
        grid         == grid_index(eventnum, event_len, tacfg.chunk_size)
        shift        == random_shift(event_len, u)
        input_index  == grid + shift
        target       == target_index(tacfg.strength, grid, input_index)
        itarget_bgn  == target
        itarget_end  == Min(itarget_bgn + event_len, sig_length - 1)
        t            == SliceAssign(trow, itarget_bgn, itarget_end,
                                    event, itarget_end - itarget_bgn)
        iin_bgn      == iinput_bgn(input_index)
        iin_end      == Min(iin_bgn + event_len, sig_length - 1)
        i            == SliceAssign(irow, iin_bgn, iin_end, event, iin_end - iin_bgn)
    IN  [target |-> t.row, input |-> IF t.err = "none" THEN i.row ELSE irow,
         ok |-> t.err = "none" /\ i.err = "none",
         idx |-> [set |-> TRUE, eventnum |-> eventnum, grid_index |-> grid,
                  random_shift |-> shift, input_index |-> input_index,
                  target_index |-> target, itarget_bgn |-> itarget_bgn,
                  itarget_end |-> itarget_end, iinput_bgn |-> iin_bgn,
                  iinput_end |-> iin_end]]

\* ta_oneproc, lines 70-72: the base event
TABase(c) ==
    /\ Scheduled(c) /\ workers[c].pc = "start"
    /\ LET w == BaseWrite(target_sigs[RowOf(c)], input_sigs[RowOf(c)])
       IN  /\ target_sigs' = [target_sigs EXCEPT ![RowOf(c)] = w.target]
           /\ input_sigs' = [input_sigs EXCEPT ![RowOf(c)] = w.input]
           /\ workers' = [workers EXCEPT ![c].pc = IF w.ok THEN "events" ELSE "raised"]
    /\ UNCHANGED <<call, kmap, mem, ret, tacfg>>

\* ta_oneproc, lines 74-91: one iteration of the event loop
TAEvent(c) ==
    /\ Scheduled(c) /\ workers[c].pc = "events"
    /\ workers[c].eventnum < tacfg.num_events
    /\ \E u \in JitterChoices :
       LET w == EventWrite(workers[c].eventnum, u,
                           target_sigs[RowOf(c)], input_sigs[RowOf(c)])
       IN  /\ target_sigs' = [target_sigs EXCEPT ![RowOf(c)] = w.target]
           /\ input_sigs' = [input_sigs EXCEPT ![RowOf(c)] = w.input]
           /\ workers' = [workers EXCEPT ![c] =
                 [pc |-> IF w.ok THEN "events" ELSE "raised",
                  eventnum |-> IF w.ok THEN @.eventnum + 1 ELSE @.eventnum,
                  idx |-> w.idx,
                  draws |-> Append(@.draws, u)]]
    /\ UNCHANGED <<call, kmap, mem, ret, tacfg>>

\* ta_oneproc, line 93: return after the last event
TAReturn(c) ==
    /\ Scheduled(c) /\ workers[c].pc = "events"
    /\ workers[c].eventnum = tacfg.num_events
    /\ workers' = [workers EXCEPT ![c].pc = "done"]
    /\ UNCHANGED <<call, kmap, mem, ret, tacfg, input_sigs, target_sigs>>

\* gen_timealign_pairs, lines 107-112: every call has returned, so the two
\* buffers are returned
GenReturn ==
    /\ tacfg.result = "running"
    /\ \A c \in 1..tacfg.num_chunks : workers[c].pc = "done"
    /\ tacfg' = [tacfg EXCEPT !.result = "returned"]
    /\ UNCHANGED <<call, kmap, mem, ret, workers, input_sigs, target_sigs>>

\* gen_timealign_pairs: an exception of ta_oneproc leaves the for loop at
\* once; pool.map raises it when the other calls have ended
GenRaise ==
    /\ tacfg.result = "running"
    /\ \E c \in 1..tacfg.num_chunks : workers[c].pc = "raised"
    /\ \/ ~tacfg.parallel
       \/ \A c \in 1..tacfg.num_chunks : workers[c].pc \in {"done", "raised"}
    /\ tacfg' = [tacfg EXCEPT !.result = "raised"]
    /\ UNCHANGED <<call, kmap, mem, ret, workers, input_sigs, target_sigs>>

NextTA ==
    \/ \E c \in 1..tacfg.num_chunks : TABase(c)
    \/ \E c \in 1..tacfg.num_chunks : TAEvent(c)
    \/ \E c \in 1..tacfg.num_chunks : TAReturn(c)
    \/ GenReturn
    \/ GenRaise

SpecTA == InitTA /\ [][NextTA]_vars

(***************************************************************************)
(* gen_pitch_shifted_pairs and psp_oneproc (signaltrain/audio.py, lines    *)
(* 116-145).  A row is the sequence of the waves added to it so far, in    *)
(* the order of the additions: <<"cos", d>> for amp*cos(freq*t/fs) and     *)
(* <<"sin", d>> for amp_fac*amp*sin(freq_fac*freq*t/fs), d being the draw  *)
(* <<amp, freq>> of lines 120-121.  The row's samples are not computed.    *)
(* `row += wave` is a read of the row followed by a write of the sum.      *)
(***************************************************************************)
\* the draws <<amp, freq>> of lines 120-121 (freq without its factor 2*pi)
WaveDraws == {<<Rat(1, 10), 500>>, <<Rat(1, 20), 700>>}

\* gen_pitch_shifted_pairs, lines 136-139, for each combination of arguments
InitPSP ==
    /\ IdleKnobs /\ IdleMap /\ IdleEffect
    /\ \E num_chunks \in NumChunks, num_waves \in 0..MaxWaves, parallel \in BOOLEAN :
          /\ tacfg = [done |-> TRUE, num_chunks |-> num_chunks, num_waves |-> num_waves,
                      parallel |-> parallel, result |-> "running"]
          /\ input_sigs = [c \in 1..num_chunks |-> <<>>]
          /\ target_sigs = [c \in 1..num_chunks |-> <<>>]
          /\ workers = [c \in 1..num_chunks |->
                           [pc |-> "psp_loop", n |-> 0, draws |-> <<>>, tmp |-> <<>>]]

\* the call of psp_oneproc for chunk c may take a step (lines 140-145)
PSPScheduled(c) ==
    /\ tacfg.result = "running"
    /\ \/ tacfg.parallel
       \/ \A d \in 1..(c - 1) : workers[d].pc = "psp_done"

\* psp_oneproc, lines 118-124: the draws of one wave, and the read of the
\* input row by `input_sigs[chunk_index] += ...`
PSPDraw(c) ==
    /\ PSPScheduled(c) /\ workers[c].pc = "psp_loop" /\ workers[c].n < tacfg.num_waves
    /\ \E d \in WaveDraws :
          workers' = [workers EXCEPT ![c] =
              [pc |-> "psp_write_input", n |-> @.n, draws |-> Append(@.draws, d),
               tmp |-> Append(input_sigs[RowOf(c)], <<"cos", d>>)]]
    /\ UNCHANGED <<call, kmap, mem, ret, tacfg, input_sigs, target_sigs>>

\* line 124: the write of the input row
PSPWriteInput(c) ==
    /\ PSPScheduled(c) /\ workers[c].pc = "psp_write_input"
    /\ input_sigs' = [input_sigs EXCEPT ![RowOf(c)] = workers[c].tmp]
    /\ workers' = [workers EXCEPT ![c].pc = "psp_read_target", ![c].tmp = <<>>]
    /\ UNCHANGED <<call, kmap, mem, ret, tacfg, target_sigs>>

\* line 125: the read of the target row by `target_sigs[chunk_index] += ...`
PSPReadTarget(c) ==
    /\ PSPScheduled(c) /\ workers[c].pc = "psp_read_target"
    /\ workers' = [workers EXCEPT ![c].pc = "psp_write_target",
                      ![c].tmp = Append(target_sigs[RowOf(c)],
                                        <<"sin", workers[c].draws[Len(workers[c].draws)]>>)]
    /\ UNCHANGED <<call, kmap, mem, ret, tacfg, input_sigs, target_sigs>>

\* line 125: the write of the target row, which ends the iteration
PSPWriteTarget(c) ==
    /\ PSPScheduled(c) /\ workers[c].pc = "psp_write_target"
    /\ target_sigs' = [target_sigs EXCEPT ![RowOf(c)] = workers[c].tmp]
    /\ workers' = [workers EXCEPT ![c].pc = "psp_loop", ![c].n = @ + 1, ![c].tmp = <<>>]
    /\ UNCHANGED <<call, kmap, mem, ret, tacfg, input_sigs>>

\* psp_oneproc, line 126
PSPReturn(c) ==
    /\ PSPScheduled(c) /\ workers[c].pc = "psp_loop" /\ workers[c].n = tacfg.num_waves
    /\ workers' = [workers EXCEPT ![c].pc = "psp_done"]
    /\ UNCHANGED <<call, kmap, mem, ret, tacfg, input_sigs, target_sigs>>

\* gen_pitch_shifted_pairs, lines 140-145: every call has returned
PSPGenReturn ==
    /\ tacfg.result = "running"
    /\ \A c \in 1..tacfg.num_chunks : workers[c].pc = "psp_done"
    /\ tacfg' = [tacfg EXCEPT !.result = "returned"]
    /\ UNCHANGED <<call, kmap, mem, ret, workers, input_sigs, target_sigs>>

NextPSP ==
    \/ \E c \in 1..tacfg.num_chunks : PSPDraw(c)
    \/ \E c \in 1..tacfg.num_chunks : PSPWriteInput(c)
    \/ \E c \in 1..tacfg.num_chunks : PSPReadTarget(c)
    \/ \E c \in 1..tacfg.num_chunks : PSPWriteTarget(c)
    \/ \E c \in 1..tacfg.num_chunks : PSPReturn(c)
    \/ PSPGenReturn

\* the two pair generators
InitPairs == InitTA \/ InitPSP

NextPairs == NextTA \/ NextPSP

SpecPairs == InitPairs /\ [][NextPairs]_vars

\* ta_oneproc run alone on the rows trow, irow from iteration n on, with
\* the draws of the chunk (lines 74-91, as the for loop of line 110 runs it)
RECURSIVE SeqEvents(_, _, _, _)
SeqEvents(n, draws, trow, irow) ==
    IF n > Len(draws) THEN [target |-> trow, input |-> irow]
    ELSE LET w == EventWrite(n - 1, draws[n], trow, irow)
         IN  SeqEvents(n + 1, draws, w.target, w.input)

\* the rows a call of ta_oneproc leaves when nothing else runs
SeqChunk(draws) ==
    LET zero == [n \in 1..tacfg.chunk_size |-> <<0, 0>>]
        b    == BaseWrite(zero, zero)
    IN  SeqEvents(1, draws, b.target, b.input)

(***************************************************************************)
(* The random numbers of gen_timealign_pairs (signaltrain/audio.py, lines  *)
(* 52-112).  Every draw is a call of np.random.random or np.random.choice, *)
(* functions of numpy's one global generator of the process; the pool's    *)
(* workers are threads of that process (ThreadPool, line 9) and nothing in *)
(* the module creates or seeds another generator.  tacfg.rng is the number *)
(* of values taken from the global stream so far, and a draw is known by   *)
(* its position in that stream.  The buffers are left out.                 *)
(***************************************************************************)
\* the draws of one call of ta_oneproc: four in each gen_pluck (lines 54-58)
\* and one jitter per event (line 79)
DrawsOfCall(num_events) == 4 + 5 * num_events

InitRNG ==
    /\ IdleKnobs /\ IdleMap /\ IdleEffect
    /\ input_sigs = <<>> /\ target_sigs = <<>>
    /\ \E num_chunks \in NumChunks, num_events \in 0..1, parallel \in BOOLEAN :
          /\ tacfg = [done |-> TRUE, num_chunks |-> num_chunks, num_events |-> num_events,
                      parallel |-> parallel, rng |-> 0, result |-> "running"]
          /\ workers = [c \in 1..num_chunks |-> [pc |-> "draw", draws |-> <<>>]]

RNGScheduled(c) ==
    /\ tacfg.result = "running"
    /\ \/ tacfg.parallel
       \/ \A d \in 1..(c - 1) : workers[d].pc = "done"

\* one call of np.random.random() / np.random.choice() by the call of
\* ta_oneproc for chunk c: the next value of the global stream
RNGDraw(c) ==
    /\ RNGScheduled(c) /\ workers[c].pc = "draw"
    /\ Len(workers[c].draws) < Min(DrawsOfCall(tacfg.num_events), MaxDraws)
    /\ tacfg' = [tacfg EXCEPT !.rng = @ + 1]
    /\ workers' = [workers EXCEPT ![c].draws = Append(@, tacfg.rng + 1)]
    /\ UNCHANGED <<call, kmap, mem, ret, input_sigs, target_sigs>>

\* the call for chunk c has made its draws and returns (line 93)
RNGReturn(c) ==
    /\ RNGScheduled(c) /\ workers[c].pc = "draw"
    /\ Len(workers[c].draws) = Min(DrawsOfCall(tacfg.num_events), MaxDraws)
    /\ workers' = [workers EXCEPT ![c].pc = "done"]
    /\ UNCHANGED <<call, kmap, mem, ret, tacfg, input_sigs, target_sigs>>

\* lines 107-112
RNGGenReturn ==
    /\ tacfg.result = "running"
    /\ \A c \in 1..tacfg.num_chunks : workers[c].pc = "done"
    /\ tacfg' = [tacfg EXCEPT !.result = "returned"]
    /\ UNCHANGED <<call, kmap, mem, ret, workers, input_sigs, target_sigs>>

NextRNG ==
    \/ \E c \in 1..tacfg.num_chunks : RNGDraw(c)
    \/ \E c \in 1..tacfg.num_chunks : RNGReturn(c)
    \/ RNGGenReturn

SpecRNG == InitRNG /\ [][NextRNG]_vars

(***************************************************************************)
(* Effects without processing: the super-class Effect, whose go_wc is the  *)
(* stub of lines 334-335 (helpers/audio.py), and functions(x, f) with its  *)
(* chain of names (signaltrain/audio.py, lines 256-281).  ret.value says   *)
(* what the call returned: "x" (the argument itself), "new" (a new array,  *)
(* ret.y holding its samples where they are rational), "None", or nothing  *)
(* when it raised.                                                         *)
(***************************************************************************)
\* Effect.go_wc, lines 334-335: print a warning; the function ends without a
\* return statement
go_wc_stub(x, knobs_w) ==
    [err |-> "none", value |-> "None",
     printed |-> "Warning: This effect's go_wc() is undefined"]

\* Effect.go (lines 337-339) on an instance of the super-class
GenericGo ==
    /\ ~ret.done
    /\ \E x0 \in XInputs : \E nn \in NormInputs :
          LET knobs_w == Effect_knobs_wc("Effect", nn)
              r       == IF NpIsError(knobs_w)
                         THEN [err |-> "ValueError", value |-> "", printed |-> ""]
                         ELSE go_wc_stub(x0, knobs_w)
          IN  ret' = [done |-> TRUE, op |-> "go", effect |-> "Effect", x0 |-> x0,
                      knobs_nn |-> nn, err |-> r.err, value |-> r.value,
                      printed |-> r.printed, y |-> <<>>]
    /\ UNCHANGED <<call, kmap, mem, tacfg, workers, input_sigs, target_sigs>>

\* the names functions(x, f) knows
FunctionNames ==
    {"id", "x^2", "clip", "sin", "dec_cos", "wiggle", "lpf", "delay", "echo", "comp"}

\* names of effects that are not implemented
UnknownNames == {"reverb", "", "ID"}

\* np.clip(x, -0.3, 0.3)
Clip(v) ==
    IF RLt(v, Rat(-3, 10)) THEN Rat(-3, 10)
    ELSE IF RLt(Rat(3, 10), v) THEN Rat(3, 10) ELSE v

\* functions, lines 256-281.  'lpf' calls lowpass(f) with the name instead
\* of the signal, and zi*x[0] on a character raises TypeError; the samples
\* of the transcendental functions and of echo and compressor are left out.
functions(x, f) ==
    CASE f = "id"   -> [err |-> "none", value |-> "x", y |-> x, printed |-> ""]
      [] f = "x^2"  -> [err |-> "none", value |-> "new",
                        y |-> [n \in 1..Len(x) |-> RMul(x[n], x[n])], printed |-> ""]
      [] f = "clip" -> [err |-> "none", value |-> "new",
                        y |-> [n \in 1..Len(x) |-> Clip(x[n])], printed |-> ""]
      [] f \in {"sin", "dec_cos", "wiggle", "delay", "echo", "comp"} ->
                       [err |-> "none", value |-> "new", y |-> <<>>, printed |-> ""]
      [] f = "lpf"  -> [err |-> "TypeError", value |-> "", y |-> <<>>, printed |-> ""]
      [] OTHER      -> [err |-> "AssertionError", value |-> "", y |-> <<>>,
                        printed |-> "functions: error invalid type"]

CallFunctions ==
    /\ ~ret.done
    /\ \E x0 \in XInputs : \E f \in FunctionNames \cup UnknownNames :
          LET r == functions(x0, f)
          IN  ret' = [done |-> TRUE, op |-> "functions", f |-> f, x0 |-> x0,
                      err |-> r.err, value |-> r.value, printed |-> r.printed, y |-> r.y]
    /\ UNCHANGED <<call, kmap, mem, tacfg, workers, input_sigs, target_sigs>>

InitUndefined == IdleKnobs /\ IdleMap /\ IdleEffect /\ IdleTA

NextUndefined == GenericGo \/ CallFunctions

SpecUndefined == InitUndefined /\ [][NextUndefined]_vars

(***************************************************************************)
(* AudioFileDataSet.__init__ (signaltrain/datasets.py, lines 66-107).  A   *)
(* file name is the sequence of the character codes that follow the common *)
(* prefix 'input_' or 'target_': the digits of the file's number and the   *)
(* character after them, '.' (46) in 'input_12.wav' or '_' (95) in         *)
(* 'input_12_.wav' and 'target_12_Compressor__-10__3__100.wav'.            *)
(***************************************************************************)
\* the numbers of the files a directory may hold, as digit codes ('0' = 48)
FileIds == { <<49>>, <<50>>, <<49, 48>> }

Dot == 46

Underscore == 95

\* the order of Python strings: by the first differing character, a proper
\* prefix first
RECURSIVE LexLt(_, _)
LexLt(a, b) ==
    IF a = <<>> THEN b # <<>>
    ELSE IF b = <<>> THEN FALSE
    ELSE IF Head(a) # Head(b) THEN Head(a) < Head(b)
    ELSE LexLt(Tail(a), Tail(b))

\* sorted(glob.glob(...)), lines 94-95
RECURSIVE sorted(_)
sorted(S) ==
    IF S = {} THEN <<>>
    ELSE LET m == CHOOSE x \in S : \A y \in S : x = y \/ LexLt(x.name, y.name)
         IN  <<m>> \o sorted(S \ {m})

\* the directory listing of the files with the numbers ids, each name
\* continuing with the character sep
Glob(ids, sep) == { [id |-> i, name |-> Append(i, sep)] : i \in ids }

\* lines 94-107 with preload = False: the constructor ends at line 104
AudioFileDataSet_init ==
    /\ ~ret.done
    /\ \E ins \in SUBSET FileIds, targs \in SUBSET FileIds, sep \in {Dot, Underscore} :
          LET input_filenames  == sorted(Glob(ins, sep))
              target_filenames == sorted(Glob(targs, Underscore))
          IN  ret' = [done |-> TRUE, op |-> "AudioFileDataSet",
                      input_filenames |-> input_filenames,
                      target_filenames |-> target_filenames,
                      err |-> IF Len(input_filenames) = Len(target_filenames)
                              THEN "none" ELSE "AssertionError"]
    /\ UNCHANGED <<call, kmap, mem, tacfg, workers, input_sigs, target_sigs>>

InitFiles == IdleKnobs /\ IdleMap /\ IdleEffect /\ IdleTA

NextFiles == AudioFileDataSet_init

SpecFiles == InitFiles /\ [][NextFiles]_vars

(***************************************************************************)
(* do_augment (signaltrain/datasets.py, lines 19-49), on the array heap:   *)
(* x and y are array ids, -x and -y are new arrays, x[indices] = ... is a  *)
(* write in place.                                                         *)
(***************************************************************************)
\* 2*np.random.rand(n)-1, lines 38 and 47
FactorChoices == {I(-1), Rat(1, 2)}

NegArray(a) == [n \in 1..Len(a) |-> RNeg(a[n])]

\* np.max(x) of a non-empty array
RECURSIVE NpMax(_)
NpMax(a) ==
    IF Len(a) = 1 THEN a[1]
    ELSE LET r == NpMax(Tail(a)) IN IF RLt(a[1], r) THEN r ELSE a[1]

\* the values np.random.randint(0, high=lookback, size=n) may return
RandintAll(lookback, size, n) == SeqsOf(0..(size - 1), n)

Randint(lookback, size, n) == SeqsOf(0..(lookback - 1), n)

\* x[indices] = vals on array id: for an index that occurs several times the
\* last value is the one that stays
FancyAssign(m, id, indices, vals) ==
    [m EXCEPT ![id] =
        [i \in 1..Len(m[id]) |->
            IF \E k \in 1..Len(indices) : indices[k] = i - 1
            THEN LET k == CHOOSE k \in 1..Len(indices) :
                              /\ indices[k] = i - 1
                              /\ \A j \in (k + 1)..Len(indices) : indices[j] # i - 1
                 IN  vals[k]
            ELSE m[id][i]]]

\* lines 25-49.  d holds the draws: the three coins, the indices and factors
\* of the two perturbations, and empty_ok: whether this numpy accepts
\* randint(0, high=0, size=0) (it returns an empty array) or raises
\* ValueError("low >= high") as older versions do.
do_augment(m, x, y, rand_invert, mult_some, add_some, d) ==
    LET inv      == rand_invert /\ d.coin_invert
        m1       == IF inv THEN Alloc(Alloc(m, NegArray(m[x])), NegArray(m[y])) ELSE m
        x1       == IF inv THEN Len(m) + 1 ELSE x
        y1       == IF inv THEN Len(m) + 2 ELSE y
        lookback == Len(m1[x1]) - Len(m1[y1])
        domult   == mult_some /\ d.coin_mult
        doadd    == add_some /\ d.coin_add
        m2       == IF domult /\ lookback > 0
                    THEN FancyAssign(m1, x1, d.mult_idx,
                            [k \in 1..Len(d.mult_idx) |->
                                RMul(m1[x1][d.mult_idx[k] + 1], d.mults[k])])
                    ELSE m1
        tiny_fac == RDiv(NpMax(m2[x1]), I(1000000))
        m3       == IF doadd /\ lookback > 0
                    THEN FancyAssign(m2, x1, d.add_idx,
                            [k \in 1..Len(d.add_idx) |->
                                RAdd(m2[x1][d.add_idx[k] + 1], RMul(tiny_fac, d.adds[k]))])
                    ELSE m2
    IN  IF domult /\ lookback <= 0 /\ ~d.empty_ok
        THEN [mem |-> m1, err |-> "ValueError", x |-> 0, y |-> 0]
        ELSE IF doadd /\ lookback <= 0 /\ ~d.empty_ok
        THEN [mem |-> m2, err |-> "ValueError", x |-> 0, y |-> 0]
        ELSE [mem |-> m3, err |-> "none", x |-> x1, y |-> y1]

\* the signals handed to do_augment
AugY(n) == [i \in 1..n |-> IF i % 2 = 1 THEN I(-1) ELSE Rat(1, 4)]

\* one call of do_augment(x, y, rand_invert, mult_some, add_some) with
\* len(y) <= len(x); the caller's x is array 1 and its y array 2
CallDoAugment ==
    /\ ~ret.done
    /\ \E Lx \in 1..MaxAugLen : \E Ly \in 0..Lx :
       \E rand_invert \in BOOLEAN, mult_some \in BOOLEAN, add_some \in BOOLEAN :
       \E ci \in (IF rand_invert THEN BOOLEAN ELSE {FALSE}) :
       \E cm \in (IF mult_some THEN BOOLEAN ELSE {FALSE}) :
       \E ca \in (IF add_some THEN BOOLEAN ELSE {FALSE}) :
       \E eo \in (IF Lx = Ly /\ (cm \/ ca) THEN BOOLEAN ELSE {TRUE}) :
       \E mi \in (IF cm /\ Lx > Ly THEN Randint(Lx - Ly, Lx, Trunc(RMul(I(Lx - Ly), Rat(1, 5))))
                  ELSE {<<>>}) :
       \E mv \in SeqsOf(FactorChoices, Len(mi)) :
       \E ai \in (IF ca /\ Lx > Ly THEN Randint(Lx - Ly, Lx, Trunc(RMul(I(Lx - Ly), Rat(3, 10))))
                  ELSE {<<>>}) :
       \E av \in SeqsOf(FactorChoices, Len(ai)) :
          LET d == [coin_invert |-> ci, coin_mult |-> cm, coin_add |-> ca, empty_ok |-> eo,
                    mult_idx |-> mi, mults |-> mv, add_idx |-> ai, adds |-> av]
              r == do_augment(<<LongSignal(Lx), AugY(Ly)>>, 1, 2,
                              rand_invert, mult_some, add_some, d)
          IN  /\ mem' = r.mem
              /\ ret' = [done |-> TRUE, op |-> "do_augment", x0 |-> LongSignal(Lx),
                         y0 |-> AugY(Ly), rand_invert |-> rand_invert,
                         mult_some |-> mult_some, add_some |-> add_some,
                         draw |-> d, err |-> r.err, x |-> r.x, y |-> r.y]
    /\ UNCHANGED <<call, kmap, tacfg, workers, input_sigs, target_sigs>>

InitAugment == IdleKnobs /\ IdleMap /\ IdleEffect /\ IdleTA

NextAugment == CallDoAugment

SpecAugment == InitAugment /\ [][NextAugment]_vars

(***************************************************************************)
(* The items of the two datasets (signaltrain/datasets.py):                *)
(* SynthAudioDataSet.__getitem__ / gen_single_chunk (lines 279-306) and    *)
(* AudioFileDataSet.__getitem__ / get_single_chunk (lines 196-233).        *)
(* Signals are handled by value here; ret holds the item returned.         *)
(***************************************************************************)
\* a[-k:]: the last k elements, and all of a for k = 0 or k >= len(a)
LastN(a, k) ==
    IF k = 0 \/ k >= Len(a) THEN a ELSE SubSeq(a, Len(a) - k + 1, Len(a))

\* a[b:b+n] for b >= 0
Window(a, b, n) == SubSeq(a, b + 1, Min(b + n, Len(a)))

\* y[0:k] = x[0:k] (line 215): numpy raises ValueError unless the two
\* slices have the same length (a single sample is broadcast)
SliceCopy(y, x, k) ==
    LET dlen == Min(k, Len(y))
        slen == Min(k, Len(x))
    IN  IF slen # dlen /\ slen # 1 THEN [err |-> "ValueError", y |-> y]
        ELSE [err |-> "none",
              y |-> [n \in 1..Len(y) |->
                        IF n <= dlen THEN (IF slen = 1 THEN x[1] ELSE x[n]) ELSE y[n]]]

\* the normalised knob vectors of an item: all knobs at one value
ItemKnobs(e) == { [k \in 1..Len(knob_ranges(e)) |-> v] : v \in NormChoices }

\* what an effect draws or gets from a library while an item is made
ItemDraws(e, x0) ==
    CASE e = "Compressor" ->
            { [in_env |-> d] : d \in EnvelopesOf(LevelsdB(x0)) }
      [] e \in {"PitchShifter", "LowPass"} ->
            { [out |-> [n \in 1..Len(x0) |-> v]] : v \in OutChoices }
      [] e = "Denoise" ->
            { [noise |-> [n \in 1..Len(x0) |-> v]] : v \in NoiseChoices }
      [] e = "TimeAlign" ->
            { [target |-> LongSignal(TAChunk), u |-> u] : u \in {I(-1), I(0), Rat(9, 10)} }
      [] OTHER -> { [none |-> TRUE] }

\* the draws of do_augment(x, y) called with its default flags
\* (rand_invert = True, mult_some = False, add_some = True)
AddDraws(lookback, coin_add) ==
    IF coin_add /\ lookback > 0
    THEN { <<ai, av>> :
             ai \in Randint(lookback, lookback, Trunc(RMul(I(lookback), Rat(3, 10)))),
             av \in SeqsOf(FactorChoices, Trunc(RMul(I(lookback), Rat(3, 10)))) }
    ELSE { << <<>>, <<>> >> }

AugDraws(lookback) ==
    { [coin_invert |-> ci, coin_mult |-> FALSE, coin_add |-> t[1], empty_ok |-> t[2],
       mult_idx |-> <<>>, mults |-> <<>>, add_idx |-> t[3][1], adds |-> t[3][2]] :
         ci \in BOOLEAN,
         t \in UNION { { <<ca, eo, p>> :
                            eo \in (IF ca /\ lookback <= 0 THEN BOOLEAN ELSE {TRUE}),
                            p \in AddDraws(lookback, ca) } : ca \in BOOLEAN } }

\* what an effect call leaves: the signals x and y, or the exception
EffectOut(r) ==
    IF r.err = "none" THEN [err |-> "none", x |-> r.mem[r.second], y |-> r.mem[r.first]]
    ELSE [err |-> r.err, x |-> <<>>, y |-> <<>>]

\* `y = y[-self.y_size:]` (lines 218 and 301)
Shrink(o, y_size) ==
    IF o.err = "none" THEN [o EXCEPT !.y = LastN(o.y, y_size)] ELSE o

\* `if self.augment: x, y = do_augment(x, y)` (lines 224-225 and 303-304)
Augmented(augment, o, d) ==
    IF o.err = "none" /\ augment
    THEN LET a == do_augment(<<o.x, o.y>>, 1, 2, TRUE, FALSE, TRUE, d)
         IN  IF a.err # "none" THEN [err |-> a.err, x |-> <<>>, y |-> <<>>]
             ELSE [err |-> "none", x |-> a.mem[a.x], y |-> a.mem[a.y]]
    ELSE o

\* the draws of the augmentation of the pair o, when it runs
ItemAugDraws(augment, o) ==
    IF augment /\ o.err = "none" THEN AugDraws(Len(o.x) - Len(o.y)) ELSE {[none |-> TRUE]}

\* the physical knob vectors parsed from the target file names
FileKnobs(e) == { Effect_knobs_wc(e, NpVector(nn)) : nn \in ItemKnobs(e) }

\* line 284: the triple __getitem__ returns from gen_single_chunk's x, y, knobs
SynthReturn(nn, draw, d, a) ==
    ret' = [done |-> TRUE, op |-> "synth_item", draw |-> draw, aug |-> d, err |-> a.err,
            input |-> LastN(a.x, tacfg.chunk_size),
            target |-> LastN(a.y, tacfg.y_size),
            knobs |-> NpVector(nn)]

\* lines 298-306 of gen_single_chunk, after the effect returned o
SynthAfterEffect(nn, draw, o) ==
    \E d \in ItemAugDraws(tacfg.augment, o) :
       SynthReturn(nn, draw, d, Augmented(tacfg.augment, o, d))

\* SynthAudioDataSet.__getitem__ with recycle = False (lines 279-306)
SynthGetItem ==
    /\ ~ret.done
    /\ tacfg.kind = "synth"
    /\ \E nn \in ItemKnobs(tacfg.effect) :
       \E draw \in ItemDraws(tacfg.effect, LongSignal(tacfg.chunk_size)) :
          SynthAfterEffect(nn, draw,
              Shrink(EffectOut(go_wc(tacfg.effect,
                                     <<LongSignal(tacfg.chunk_size)>>, 1,   \* synth_input_sample
                                     Effect_knobs_wc(tacfg.effect, NpVector(nn)).data,
                                     draw)),
                     tacfg.y_size))
    /\ UNCHANGED <<call, kmap, mem, tacfg, workers, input_sigs, target_sigs>>

\* the assertion of line 207
ChunkFits(audio_len, chunk_size) == audio_len > chunk_size

\* a draw that may also take the values high and high + 1
IbgnPastEnd(audio_len, chunk_size) == 0..(audio_len - chunk_size + 1)

\* the values np.random.randint(0, len(in_audio) - self.chunk_size) takes (line 208)
IbgnChoices(audio_len, chunk_size) == 0..(audio_len - chunk_size - 1)

\* lines 215-216: `if self.skip_over > 0: y_item[0:skip_over] = x_item[0:skip_over]`
SkipOver(o, skip_over) ==
    IF o.err # "none" \/ ~(skip_over > 0) THEN o
    ELSE LET sk == SliceCopy(o.y, o.x, skip_over)
         IN  IF sk.err # "none" THEN [err |-> sk.err, x |-> <<>>, y |-> <<>>]
             ELSE [o EXCEPT !.y = sk.y]

\* line 227: the triple get_single_chunk returns
FileReturn(knobs_w, ibgn, x_item, draw, d, a) ==
    ret' = [done |-> TRUE, op |-> "file_item", err |-> a.err, message |-> "",
            knobs_wc |-> knobs_w, ibgn |-> ibgn, x_item |-> x_item,
            draw |-> draw, aug |-> d,
            input |-> a.x, target |-> a.y, knobs |-> Normalize(tacfg.effect, knobs_w)]

\* lines 215-227, after the window was cut and the effect possibly rerun
FileAfterEffect(knobs_w, ibgn, x_item, draw, o) ==
    \E d \in ItemAugDraws(tacfg.augment, o) :
       FileReturn(knobs_w, ibgn, x_item, draw, d, Augmented(tacfg.augment, o, d))

\* lines 209-213: the two windows, and the effect rerun on the input window
FileWindow(knobs_w, ibgn, x_item, y_item) ==
    IF tacfg.rerun_effect
    THEN \E draw \in ItemDraws(tacfg.effect, x_item) :
            FileAfterEffect(knobs_w, ibgn, x_item, draw,
                Shrink(SkipOver(EffectOut(go_wc(tacfg.effect, <<x_item>>, 1,
                                                knobs_w.data, draw)),
                                Trunc(RMul(I(tacfg.chunk_size), tacfg.skip_factor))),
                       tacfg.y_size))
    ELSE FileAfterEffect(knobs_w, ibgn, x_item, [none |-> TRUE],
                Shrink(SkipOver([err |-> "none", x |-> x_item, y |-> y_item],
                                Trunc(RMul(I(tacfg.chunk_size), tacfg.skip_factor))),
                       tacfg.y_size))

\* AudioFileDataSet.__getitem__ (lines 196-233).  in_audio and targ_audio
\* are the pair of one file or of one preloaded row, of the same length
\* (preload_audio assumes it); ibgn is the draw of line 208.
FileGetItem ==
    /\ ~ret.done
    /\ tacfg.kind = "file"
    /\ \E knobs_w \in FileKnobs(tacfg.effect) :
          IF ~ChunkFits(tacfg.audio_len, tacfg.chunk_size)
          THEN ret' = [done |-> TRUE, op |-> "file_item", err |-> "AssertionError",
                       message |-> "Error: len(in_audio)=, must be > self.chunk_size=",
                       knobs_wc |-> knobs_w, ibgn |-> -1, x_item |-> <<>>,
                       draw |-> [none |-> TRUE], aug |-> [none |-> TRUE],
                       input |-> <<>>, target |-> <<>>, knobs |-> NpVector(<<>>)]
          ELSE \E ibgn \in IbgnChoices(tacfg.audio_len, tacfg.chunk_size) :
                  FileWindow(knobs_w, ibgn,
                             Window(LongSignal(tacfg.audio_len), ibgn, tacfg.chunk_size),
                             Window(AugY(tacfg.audio_len), ibgn, tacfg.chunk_size))
    /\ UNCHANGED <<call, kmap, mem, tacfg, workers, input_sigs, target_sigs>>

\* the datasets after __init__ (lines 66-107 and 241-264): the effect, the
\* sizes and the flags are fixed at construction; y_size defaults to chunk_size
SynthDataSets ==
    { [kind |-> "synth", effect |-> e, chunk_size |-> cs, y_size |-> ys, augment |-> a,
       audio_len |-> 0, skip_factor |-> I(0), rerun_effect |-> FALSE] :
         e \in Effects, cs \in 1..ItemLen, ys \in 1..ItemLen, a \in BOOLEAN }

FileDataSets ==
    { [kind |-> "file", effect |-> e, chunk_size |-> cs, y_size |-> ys, augment |-> a,
       audio_len |-> al, skip_factor |-> sf, rerun_effect |-> r] :
         e \in Effects, cs \in 1..ItemLen, ys \in 1..ItemLen, a \in BOOLEAN,
         al \in 1..(ItemLen + 1), sf \in {I(0), Rat(1, 2)}, r \in BOOLEAN }

InitItems ==
    /\ IdleKnobs /\ IdleMap /\ IdleEffect
    /\ workers = <<>> /\ input_sigs = <<>> /\ target_sigs = <<>>
    /\ tacfg \in { d \in SynthDataSets \cup FileDataSets : d.y_size <= d.chunk_size }

NextItems == SynthGetItem \/ FileGetItem

SpecItems == InitItems /\ [][NextItems]_vars

(***************************************************************************)
(* AudioFileDataSet with preload = True (signaltrain/datasets.py):         *)
(* preload_audio (lines 109-135) fills self.x, self.y and self.knobs, here *)
(* input_sigs, target_sigs and kmap; get_single_chunk (lines 196-227)      *)
(* takes a row of each and slices it.  A numpy slice is a view: on the     *)
(* chunk's heap array 1 is the view self.x[i][ibgn:ibgn+chunk_size] and    *)
(* array 2 the view self.y[i][ibgn:ibgn+chunk_size], and what is written   *)
(* into them is written into the rows.                                     *)
(***************************************************************************)
\* the pair of signals read from file i
FilePair(i, audio_len) ==
    IF i % 2 = 1 THEN [x |-> LongSignal(audio_len), y |-> AugY(audio_len)]
    ELSE [x |-> AugY(audio_len), y |-> LongSignal(audio_len)]

\* lines 118-135: the rows of self.x and self.y, swapped for an inverse
\* effect, the first skip_over targets overwritten by the inputs
preload_audio(e, files_to_load, audio_len, skip_over, knobs_w) ==
    LET x == [i \in 1..files_to_load |->
                 IF is_inverse(e) THEN FilePair(i, audio_len).y ELSE FilePair(i, audio_len).x]
        y == [i \in 1..files_to_load |->
                 IF is_inverse(e) THEN FilePair(i, audio_len).x ELSE FilePair(i, audio_len).y]
    IN  [x |-> x,
         y |-> [i \in 1..files_to_load |->
                   IF skip_over > 0 THEN SliceCopy(y[i], x[i], skip_over).y ELSE y[i]],
         knobs |-> [i \in 1..files_to_load |-> knobs_w]]

\* the row after the view row[ibgn:ibgn+len(vals)] took the values vals
Splice(row, ibgn, vals) ==
    [n \in 1..Len(row) |->
        IF n > ibgn /\ n <= ibgn + Len(vals) THEN vals[n - ibgn] ELSE row[n]]

\* the buffer an array of the chunk's heap is a view of
Base(id) == CASE id = 1 -> "self.x" [] id = 2 -> "self.y" [] OTHER -> "own"

\* lines 215-216 on the heap: `y_item[0:skip_over] = x_item[0:skip_over]`
\* writes into the array y_item names
HeapSkipOver(r, skip_over) ==
    IF r.err # "none" \/ ~(skip_over > 0) THEN r
    ELSE LET sk == SliceCopy(r.mem[r.first], r.mem[r.second], skip_over)
         IN  IF sk.err # "none" THEN [r EXCEPT !.err = sk.err]
             ELSE [r EXCEPT !.mem[r.first] = sk.y]

\* line 218: `y_item = y_item[-self.y_size:]`, a view of the array base
HeapShrink(r, y_size) ==
    IF r.err # "none"
    THEN [mem |-> r.mem, first |-> r.first, second |-> r.second, err |-> r.err,
          base |-> r.first]
    ELSE [mem |-> Alloc(r.mem, LastN(r.mem[r.first], y_size)), first |-> Len(r.mem) + 1,
          second |-> r.second, err |-> "none", base |-> r.first]

\* lines 224-225: do_augment on the arrays x_item and y_item name
HeapAugmented(augment, s, d) ==
    IF s.err = "none" /\ augment
    THEN LET a == do_augment(s.mem, s.second, s.first, TRUE, FALSE, TRUE, d)
         IN  [mem |-> a.mem, first |-> a.y, second |-> a.x, err |-> a.err]
    ELSE [mem |-> s.mem, first |-> s.first, second |-> s.second, err |-> s.err]

\* line 227: the triple returned (astype(copy=False) of an array of the
\* dataset's dtype is the array itself) and the rows the views wrote into
PreloadReturn(i, ibgn, draw, d, s, a) ==
    /\ input_sigs' = [input_sigs EXCEPT ![i] = Splice(@, ibgn, a.mem[1])]
    /\ target_sigs' = [target_sigs EXCEPT ![i] = Splice(@, ibgn, a.mem[2])]
    /\ ret' = [done |-> TRUE, op |-> "preload_item", err |-> a.err, row |-> i,
               ibgn |-> ibgn, draw |-> draw, aug |-> d,
               input |-> IF a.err = "none" THEN a.mem[a.second] ELSE <<>>,
               target |-> IF a.err = "none" THEN a.mem[a.first] ELSE <<>>,
               knobs |-> Normalize(tacfg.effect, kmap[i]),
               x_base |-> IF a.err = "none" THEN Base(a.second) ELSE "own",
               y_base |-> IF a.err = "none" /\ a.first = s.first THEN Base(s.base)
                          ELSE "own"]

\* lines 218-227, after the skip_over copy
PreloadAugment(i, ibgn, draw, s) ==
    \E d \in (IF tacfg.augment /\ s.err = "none"
              THEN AugDraws(Len(s.mem[s.second]) - Len(s.mem[s.first]))
              ELSE {[none |-> TRUE]}) :
       PreloadReturn(i, ibgn, draw, d, s, HeapAugmented(tacfg.augment, s, d))

\* lines 209-213: the two views, and the effect rerun on the input view
PreloadWindow(i, ibgn, x_item, y_item) ==
    IF tacfg.rerun_effect
    THEN \E draw \in ItemDraws(tacfg.effect, x_item) :
            PreloadAugment(i, ibgn, draw,
                HeapShrink(HeapSkipOver(go_wc(tacfg.effect, <<x_item, y_item>>, 1,
                                              kmap[i].data, draw),
                                        tacfg.skip_over),
                           tacfg.y_size))
    ELSE PreloadAugment(i, ibgn, [none |-> TRUE],
                HeapShrink(HeapSkipOver([mem |-> <<x_item, y_item>>, first |-> 2,
                                         second |-> 1, err |-> "none"],
                                        tacfg.skip_over),
                           tacfg.y_size))

\* AudioFileDataSet.__getitem__ with preload = True (lines 196-233): i is
\* the draw of line 203, ibgn that of line 208
PreloadGetItem ==
    /\ ~ret.done
    /\ \E i \in 1..Len(input_sigs) :
          /\ ChunkFits(Len(input_sigs[i]), tacfg.chunk_size)
          /\ \E ibgn \in IbgnChoices(Len(input_sigs[i]), tacfg.chunk_size) :
                PreloadWindow(i, ibgn,
                              Window(input_sigs[i], ibgn, tacfg.chunk_size),
                              Window(target_sigs[i], ibgn, tacfg.chunk_size))
    /\ UNCHANGED <<call, kmap, mem, tacfg, workers>>

\* the chunk sizes of the preloaded datasets; the files are two samples longer
PreloadChunks == {2, 5}

\* the dataset after __init__ with preload = True (lines 66-107)
PreloadDataSets ==
    { [effect |-> e, chunk_size |-> cs, y_size |-> IF whole THEN cs ELSE 1, augment |-> a,
       skip_over |-> Trunc(RMul(I(cs), sf)), rerun_effect |-> r] :
         e \in Effects, cs \in PreloadChunks, whole \in BOOLEAN, a \in BOOLEAN,
         sf \in {I(0), Rat(1, 2)}, r \in BOOLEAN }

InitPreload ==
    /\ IdleKnobs /\ IdleEffect /\ workers = <<>>
    /\ \E c \in PreloadDataSets : \E knobs_w \in FileKnobs(c.effect) :
          LET p == preload_audio(c.effect, PreFiles, c.chunk_size + 2, c.skip_over, knobs_w)
          IN  /\ input_sigs = p.x
              /\ target_sigs = p.y
              /\ kmap = p.knobs
              /\ tacfg = [effect |-> c.effect, chunk_size |-> c.chunk_size,
                          y_size |-> c.y_size, augment |-> c.augment,
                          skip_over |-> c.skip_over, rerun_effect |-> c.rerun_effect,
                          loaded_x |-> p.x, loaded_y |-> p.y, loaded_knobs |-> p.knobs]

NextPreload == PreloadGetItem

SpecPreload == InitPreload /\ [][NextPreload]_vars

(***************************************************************************)
(* The pluck generators: expdecay and pluck (helpers/audio.py, lines       *)
(* 91-107), reached through synth_input_sample with chooser 2 (line 195),  *)
(* and the older gen_input_sample with chooser 2 and gen_pluck             *)
(* (signaltrain/audio.py, lines 168-175 and 52-62).                        *)
(***************************************************************************)
\* the time axis: PluckLen stamps from 0, 1/PluckLen apart
TimeAxis == [n \in 1..PluckLen |-> Rat(n - 1, PluckLen)]

\* values of randfunc() and np.random.random(), which lie in [0, 1)
UnitDraws == {I(0), Rat(1, 2), Rat(3, 4)}

\* np.random.choice([-1, 1])
SignChoices == {-1, 1}

\* n_tones = np.random.randint(1, 4), of which the model takes 1 and 2
ToneCounts == {1, 2}

\* t0_fac: None (written as NaN here) or the 0.5 TimeAlign passes
T0Facs == {NaN, Rat(1, 2)}

\* a rational stand-in for sin(a): a/(1 + |a|).  It is odd, lies in (-1, 1)
\* and is 0 exactly when a is 0, as np.sin is on floating-point numbers
\* (none but 0 is a multiple of pi).  exp is ExpApprox, which is positive.
SinApprox(a) == RDiv(a, RAdd(I(1), IF a[1] < 0 THEN RNeg(a) ELSE a))

\* x[np.where(t < t0)] = v
MaskBefore(x, t, t0, v) == [n \in 1..Len(x) |-> IF RLt(t[n], t0) THEN v ELSE x[n]]

\* t[-1]
LastStamp(t) == t[Len(t)]

\* expdecay, lines 91-97; u holds the values randfunc returns:
\* u.t0 (line 92, drawn only when t0_fac is None), u.low, u.high, u.decay
expdecay(t, u, t0_fac) ==
    LET t0 == IF IsNaN(t0_fac) THEN RMul(RMul(Rat(35, 100), u.t0), LastStamp(t))
              ELSE RMul(t0_fac, LastStamp(t))
        height_low  == RAdd(RMul(Rat(1, 10), u.low), Rat(1, 10))
        height_high == RAdd(RMul(Rat(35, 100), u.high), Rat(6, 10))
        decay == RMul(I(12), u.decay)
        x == [n \in 1..Len(t) |->
                RMul(ExpApprox(RMul(RNeg(decay), RSub(t[n], t0))), height_high)]
    IN  [t0 |-> t0, x |-> MaskBefore(x, t, t0, height_low)]

\* one tone of pluck, lines 102-105: amp0 * sin(freq * (t - t0)); w holds
\* the draws w.amp, w.sign, w.t0 (drawn only when t0_fac is None), w.freq
ToneT0(t, w, t0_fac) ==
    IF IsNaN(t0_fac)
    THEN RMul(RMul(RSub(RMul(I(2), w.t0), I(1)), Rat(3, 10)), LastStamp(t))
    ELSE RMul(t0_fac, LastStamp(t))

Tone(t, w, t0_fac) ==
    LET amp0 == RMul(RAdd(RMul(Rat(45, 100), w.amp), Rat(1, 2)), I(w.sign))
        freq == RAdd(I(50), RMul(I(6400 - 50), w.freq))
    IN  [n \in 1..Len(t) |->
            RMul(amp0, SinApprox(RMul(freq, RSub(t[n], ToneT0(t, w, t0_fac))))) ]

\* the loop of lines 101-105: y += amp0*np.sin(...), from y = zeros
RECURSIVE Tones(_, _, _)
Tones(t, ws, t0_fac) ==
    IF ws = <<>> THEN [n \in 1..Len(t) |-> I(0)]
    ELSE LET y    == Tones(t, SubSeq(ws, 1, Len(ws) - 1), t0_fac)
             tone == Tone(t, ws[Len(ws)], t0_fac)
         IN  [n \in 1..Len(t) |-> RAdd(y[n], tone[n])]

\* pluck, lines 99-106: the sum of the tones times the envelope of expdecay
pluck(t, ws, u, t0_fac) ==
    LET y   == Tones(t, ws, t0_fac)
        env == expdecay(t, u, t0_fac)
    IN  [n \in 1..Len(t) |-> RMul(y[n], env.x[n])]

\* gen_input_sample with chooser = 2, lines 168-175
gen_input_sample(t, amp_u, sign, t0_u, decay_u, freq_u) ==
    LET amp0  == RMul(RAdd(RMul(Rat(6, 10), amp_u), Rat(3, 10)), I(sign))
        t0    == RMul(RSub(RMul(I(2), t0_u), I(1)), Rat(3, 10))
        decay == RMul(I(8), decay_u)
        freq  == RMul(I(300), freq_u)
        x     == [n \in 1..Len(t) |->
                    RMul(RMul(amp0, ExpApprox(RMul(RNeg(decay), RSub(t[n], t0)))),
                         SinApprox(RMul(freq, RSub(t[n], t0))))]
    IN  [t0 |-> t0, x |-> MaskBefore(x, t, t0, I(0))]

\* the samples of gen_pluck, lines 52-62, with amp, freq and decay drawn
\* (lines 53-58), on the time axis t
gen_pluck_samples(t, amp_u, sign, freq_u, decay_u, t0) ==
    LET amp   == RMul(RAdd(RMul(Rat(6, 10), amp_u), Rat(3, 10)), I(sign))
        freq  == RMul(I(300), freq_u)
        decay == RMul(I(10), decay_u)
    IN  [n \in 1..Len(t) |->
            RMul(RMul(amp, ExpApprox(RMul(RNeg(decay), RSub(t[n], t0)))),
                 SinApprox(RMul(freq, RSub(t[n], t0))))]

\* the draws of one tone; amp stays at the low end of its range
ToneDraws ==
    { [amp |-> I(0), sign |-> sg, t0 |-> t0, freq |-> f] :
        sg \in SignChoices, t0 \in UnitDraws, f \in {I(0), Rat(1, 127)} }

\* the draws of expdecay; the two heights stay at the low end of their ranges
EnvDraws ==
    { [t0 |-> t0, low |-> I(0), high |-> I(0), decay |-> d] :
        t0 \in UnitDraws, d \in {I(0), Rat(1, 2)} }

\* synth_input_sample(t, 2, t0_fac = t0_fac): pluck(t, t0_fac=t0_fac), line 195
CallPluck ==
    /\ ~ret.done
    /\ \E t0_fac \in T0Facs : \E n_tones \in ToneCounts :
       \E ws \in SeqsOf(ToneDraws, n_tones) : \E u \in EnvDraws :
          ret' = [done |-> TRUE, op |-> "pluck", t |-> TimeAxis, t0_fac |-> t0_fac,
                  tones |-> ws, env |-> u,
                  t0 |-> expdecay(TimeAxis, u, t0_fac).t0,
                  phases |-> { ToneT0(TimeAxis, ws[i], t0_fac) : i \in 1..Len(ws) },
                  x |-> pluck(TimeAxis, ws, u, t0_fac)]
    /\ UNCHANGED <<call, kmap, mem, tacfg, workers, input_sigs, target_sigs>>

\* gen_input_sample(t, 2)
CallGenInputSample ==
    /\ ~ret.done
    /\ \E amp_u \in UnitDraws, sg \in SignChoices, t0_u \in UnitDraws :
       \E decay_u \in UnitDraws, freq_u \in UnitDraws :
          LET r == gen_input_sample(TimeAxis, amp_u, sg, t0_u, decay_u, freq_u)
          IN  ret' = [done |-> TRUE, op |-> "gen_input_sample", t |-> TimeAxis,
                      draws |-> <<amp_u, I(sg), t0_u, decay_u, freq_u>>,
                      t0 |-> r.t0, phases |-> {r.t0}, x |-> r.x]
    /\ UNCHANGED <<call, kmap, mem, tacfg, workers, input_sigs, target_sigs>>

\* gen_pluck(length, t0 = t0); ta_oneproc calls it with the default t0 = 0.0
CallGenPluck ==
    /\ ~ret.done
    /\ \E amp_u \in UnitDraws, sg \in SignChoices, freq_u \in UnitDraws :
       \E decay_u \in UnitDraws, t0 \in {I(0), Rat(1, 2)} :
          ret' = [done |-> TRUE, op |-> "gen_pluck", t |-> TimeAxis,
                  draws |-> <<amp_u, I(sg), freq_u, decay_u>>,
                  t0 |-> t0, phases |-> {t0},
                  x |-> gen_pluck_samples(TimeAxis, amp_u, sg, freq_u, decay_u, t0)]
    /\ UNCHANGED <<call, kmap, mem, tacfg, workers, input_sigs, target_sigs>>

InitPluck == IdleKnobs /\ IdleMap /\ IdleEffect /\ IdleTA

NextPluck == CallPluck \/ CallGenInputSample \/ CallGenPluck

SpecPluck == InitPluck /\ [][NextPluck]_vars

(***************************************************************************)
(* The two compressors called directly (helpers/audio.py, lines 216-289),  *)
(* with thresholds and ratios beyond the knob ranges of the effects.       *)
(***************************************************************************)
\* thresh in dB: below every level the code computes, between the levels,
\* and above the level of a full-scale sample
ThreshChoices == {I(-100), I(-20), I(-3), I(6)}

RatioChoices == {I(1), I(2), I(5)}

\* attackTime and releaseTime in seconds: the ends of Compressor_4c's range
TimeChoices == {Rat(1, 1000), Rat(4, 100)}

\* compressor(x, thresh, ratio) on the caller's array 1
CallCompressor ==
    /\ ~ret.done
    /\ \E x0 \in XInputs : \E thresh \in ThreshChoices : \E ratio \in RatioChoices :
       \E in_env \in EnvelopesOf(LevelsdB(x0)) :
          /\ ret' = [done |-> TRUE, op |-> "compressor", x0 |-> x0, thresh |-> thresh,
                     ratio |-> ratio, levels |-> in_env, alphaA |-> I(0), alphaR |-> I(0),
                     gainChange_dB |-> <<>>,
                     gain_dB |-> compressor(<<x0>>, 1, thresh, ratio, in_env).gain_dB,
                     y |-> compressor(<<x0>>, 1, thresh, ratio, in_env).y]
          /\ mem' = compressor(<<x0>>, 1, thresh, ratio, in_env).mem
    /\ UNCHANGED <<call, kmap, tacfg, workers, input_sigs, target_sigs>>

\* what compressor_new_fast returned as r
NewFastReturn(x0, thresh, ratio, attackTime, releaseTime, r) ==
    /\ ret' = [done |-> TRUE, op |-> "compressor_new_fast", x0 |-> x0, thresh |-> thresh,
               ratio |-> ratio, levels |-> r.x_dB,
               alphaA |-> Alpha(attackTime), alphaR |-> Alpha(releaseTime),
               gainChange_dB |-> r.gainChange_dB, gain_dB |-> r.gain_dB, y |-> r.y]
    /\ mem' = r.mem

\* compressor_new_fast(x, thresh, ratio, attackTime, releaseTime) on array 1
CallCompressorNewFast ==
    /\ ~ret.done
    /\ \E x0 \in XInputs : \E thresh \in ThreshChoices : \E ratio \in RatioChoices :
       \E attackTime \in TimeChoices, releaseTime \in TimeChoices :
          NewFastReturn(x0, thresh, ratio, attackTime, releaseTime,
              compressor_new_fast(<<x0>>, 1, thresh, ratio, attackTime, releaseTime))
    /\ UNCHANGED <<call, kmap, tacfg, workers, input_sigs, target_sigs>>

InitCompress == IdleKnobs /\ IdleMap /\ IdleEffect /\ IdleTA

NextCompress == CallCompressor \/ CallCompressorNewFast

SpecCompress == InitCompress /\ [][NextCompress]_vars

(***************************************************************************)
(* echo called directly (helpers/audio.py, lines 293-305), with integer    *)
(* and fractional delays.                                                  *)
(***************************************************************************)
\* delay_samples: below one sample, one sample, fractional, and longer
\* than every signal of the model
DelayChoices == {Rat(1, 2), I(1), Rat(3, 2), I(LongLen + 1)}

EchoRatios == {Rat(1, 2), I(1)}

EchoCounts == {0, 1, 2}

\* what echo returned as r
EchoReturn(x0, delay_samples, ratio, echoes, r) ==
    /\ ret' = [done |-> TRUE, op |-> "echo", x0 |-> x0, delay_samples |-> delay_samples,
               ratio |-> ratio, echoes |-> echoes, err |-> r.err, y |-> r.y]
    /\ mem' = r.mem

\* echo(x, delay_samples, ratio, echoes) on the caller's array 1
CallEcho ==
    /\ ~ret.done
    /\ \E x0 \in XInputs : \E delay_samples \in DelayChoices :
       \E ratio \in EchoRatios : \E echoes \in EchoCounts :
          EchoReturn(x0, delay_samples, ratio, echoes,
                     echo(<<x0>>, 1, delay_samples, ratio, echoes))
    /\ UNCHANGED <<call, kmap, tacfg, workers, input_sigs, target_sigs>>

InitEcho == IdleKnobs /\ IdleMap /\ IdleEffect /\ IdleTA

NextEcho == CallEcho

SpecEcho == InitEcho /\ [][NextEcho]_vars

(***************************************************************************)
(* The choice of a waveform: synth_input_sample (helpers/audio.py, lines   *)
(* 183-211) and gen_input_sample (signaltrain/audio.py, lines 149-212).    *)
(* workers is the call stack, innermost call last; tacfg is the request    *)
(* with the count of nested generator calls and the deepest nesting seen.  *)
(* A signal is known by the variant that made it.                          *)
(***************************************************************************)
Generators == {"synth_input_sample", "gen_input_sample"}

\* the choosers a caller passes: every branch and some that match none
ChooserArgs == 0..10

\* np.random.randint(0, 7) (helpers line 188) and np.random.randint(0, 4)
\* (signaltrain line 152): the upper end is excluded
DefaultChoosers(fn) == IF fn = "synth_input_sample" THEN 0..6 ELSE 0..3

\* the branch a chooser selects (the if/elif chains of lines 190-211 and
\* 155-211)
Variant(fn, chooser) ==
    IF fn = "synth_input_sample"
    THEN CASE chooser = 0 -> "sine"
           [] chooser = 1 -> "noisy sine"
           [] chooser = 2 -> "pluck"
           [] chooser = 3 -> "triangle"
           [] chooser = 4 -> "box"
           [] chooser = 5 -> "spikes"
           [] chooser = 6 -> "noisy box"
           [] chooser = 7 -> "noisy pluck"
           [] chooser = 8 -> "white noise"
           [] OTHER -> "superposition"
    ELSE CASE chooser = 0 -> "sine"
           [] chooser = 1 -> "fixed sine"
           [] chooser = 2 -> "pluck"
           [] chooser = 3 -> "triangle"
           [] chooser = 4 -> "box"
           [] chooser = 5 -> "spikes"
           [] chooser = 6 -> "white noise"
           [] OTHER -> "superposition"

\* the frame of a call; chosen is FALSE while chooser is None
Frame(fn, given, chooser) ==
    [fn |-> fn, chosen |-> given, chooser |-> IF given THEN chooser ELSE 0,
     options |-> {}, got |-> <<>>]

Top == workers[Len(workers)]

\* the innermost call returns sig: to its caller's sum, or to the requester
Deliver(sig) ==
    IF Len(workers) = 1
    THEN /\ workers' = <<>>
         /\ ret' = [done |-> TRUE, err |-> "none", signal |-> sig]
    ELSE /\ workers' = [k \in 1..(Len(workers) - 1) |->
                          IF k = Len(workers) - 1
                          THEN [workers[k] EXCEPT !.got = Append(@, sig)]
                          ELSE workers[k]]
         /\ UNCHANGED ret

\* a caller asks for a signal, with a chooser or without
GenRequest ==
    /\ ~ret.done /\ ~tacfg.done /\ workers = <<>>
    /\ \E fn \in Generators : \E given \in BOOLEAN :
       \E chooser \in (IF given THEN ChooserArgs ELSE {0}) :
          /\ workers' = <<Frame(fn, given, chooser)>>
          /\ tacfg' = [done |-> TRUE, fn |-> fn, given |-> given,
                       chooser |-> IF given THEN chooser ELSE 0,
                       calls |-> 0, depth |-> 0]
    /\ UNCHANGED <<call, kmap, mem, ret, input_sigs, target_sigs>>

\* `if chooser is None: chooser = np.random.randint(...)`
GenDefault ==
    /\ workers # <<>> /\ ~Top.chosen
    /\ \E c \in DefaultChoosers(Top.fn) :
          workers' = [workers EXCEPT ![Len(workers)] =
                         [@ EXCEPT !.chosen = TRUE, !.chooser = c,
                                   !.options = DefaultChoosers(Top.fn)]]
    /\ UNCHANGED <<call, kmap, mem, ret, tacfg, input_sigs, target_sigs>>

\* a branch that builds its signal without a nested generator call
GenVariant ==
    /\ workers # <<>> /\ Top.chosen
    /\ Variant(Top.fn, Top.chooser) # "superposition"
    /\ Deliver([variant |-> Variant(Top.fn, Top.chooser), parts |-> <<>>])
    /\ UNCHANGED <<call, kmap, mem, tacfg, input_sigs, target_sigs>>

\* helpers line 211: 0.5*(synth_input_sample(t)+synth_input_sample(t)),
\* the two calls one after the other, each without a chooser
GenNested ==
    /\ workers # <<>> /\ Top.chosen
    /\ Top.fn = "synth_input_sample"
    /\ Variant(Top.fn, Top.chooser) = "superposition"
    /\ Len(Top.got) < 2
    /\ Len(workers) <= MaxDepth
    /\ workers' = Append(workers, Frame("synth_input_sample", FALSE, 0))
    /\ tacfg' = [tacfg EXCEPT !.calls = @ + 1,
                              !.depth = IF Len(workers) > @ THEN Len(workers) ELSE @]
    /\ UNCHANGED <<call, kmap, mem, ret, input_sigs, target_sigs>>

\* helpers line 211: both calls have returned; the average is returned
GenAverage ==
    /\ workers # <<>> /\ Top.chosen
    /\ Variant(Top.fn, Top.chooser) = "superposition"
    /\ Len(Top.got) = 2
    /\ Deliver([variant |-> "superposition", parts |-> Top.got])
    /\ UNCHANGED <<call, kmap, mem, tacfg, input_sigs, target_sigs>>

\* signaltrain line 210: x = 0.5*(make_input_signal(t)+make_input_signal(t));
\* no make_input_signal is defined or imported in the module, so evaluating
\* the name raises NameError, which no caller on the stack catches
GenUndefinedName ==
    /\ workers # <<>> /\ Top.chosen
    /\ Top.fn = "gen_input_sample"
    /\ Variant(Top.fn, Top.chooser) = "superposition"
    /\ workers' = <<>>
    /\ ret' = [done |-> TRUE, err |-> "NameError",
               signal |-> [variant |-> "none", parts |-> <<>>]]
    /\ UNCHANGED <<call, kmap, mem, tacfg, input_sigs, target_sigs>>

InitGen ==
    /\ IdleKnobs /\ IdleMap /\ IdleEffect
    /\ tacfg = NoCall /\ workers = <<>> /\ input_sigs = <<>> /\ target_sigs = <<>>

NextGen ==
    \/ GenRequest
    \/ GenDefault
    \/ GenVariant
    \/ GenNested
    \/ GenAverage
    \/ GenUndefinedName

SpecGen == InitGen /\ [][NextGen]_vars

(***************************************************************************)
(* readaudio_generator with random_every = False (helpers/audio.py, lines  *)
(* 151-180).  tacfg is the generator object, suspended at its yield; ret   *)
(* is what the last next() or send() returned.  Sample i of file f is the  *)
(* pair <<f, i>>.                                                          *)
(***************************************************************************)
\* the lengths of the audio files of the directory
FileLens == <<3, 5, 4>>

\* data of read_audio_file(filename)
FileData(f) == [i \in 1..FileLens[f] |-> <<f, i - 1>>]

\* data[start:start+seq_size] for start >= 0
DataWindow(data, start, seq_size) ==
    IF start >= Len(data) THEN <<>>
    ELSE [i \in 1..(Min(start + seq_size, Len(data)) - start) |-> data[start + i]]

\* the generator is created; its body has not run (lines 161-163 run on
\* the first next())
InitReader ==
    /\ IdleKnobs /\ IdleMap /\ IdleEffect
    /\ workers = <<>> /\ input_sigs = <<>> /\ target_sigs = <<>>
    /\ \E seq_size \in 1..2 :
          tacfg = [done |-> FALSE, seq_size |-> seq_size, read_new_file |-> TRUE,
                   start |-> -seq_size, file |-> 0, k |-> 0, reads |-> 0,
                   asked |-> 0, calls |-> 0]

\* one turn of the `while True` loop up to the yield (lines 164-177), after
\* read_new_file was set to flag; f is the file np.random.choice picks
LoopToYield(flag, asked, f) ==
    LET file  == IF flag THEN f ELSE tacfg.file
        start == tacfg.start + tacfg.seq_size
    IN  /\ tacfg' = [tacfg EXCEPT !.done = TRUE, !.read_new_file = FALSE,
                                  !.file = file, !.start = start,
                                  !.k = IF flag THEN 1 ELSE @ + 1,
                                  !.reads = IF flag THEN @ + 1 ELSE @,
                                  !.asked = @ + asked,
                                  !.calls = @ + 1]
        /\ ret' = [done |-> TRUE, file |-> file, read |-> flag,
                   k |-> IF flag THEN 0 ELSE tacfg.k,
                   xraw |-> DataWindow(FileData(file), start, tacfg.seq_size)]

\* next(g): the first call runs the body from its start; a later one
\* resumes at the yield with rc = None, which is not a bool (lines 178-180)
ReaderNext ==
    /\ tacfg.calls < MaxCalls
    /\ \E f \in 1..Len(FileLens) : LoopToYield(tacfg.read_new_file, 0, f)
    /\ UNCHANGED <<call, kmap, mem, workers, input_sigs, target_sigs>>

\* g.send(rc) with a bool rc on the suspended generator: read_new_file = rc
ReaderSend ==
    /\ tacfg.done
    /\ tacfg.calls < MaxCalls
    /\ \E rc \in BOOLEAN : \E f \in 1..Len(FileLens) :
          LoopToYield(rc, IF rc THEN 1 ELSE 0, f)
    /\ UNCHANGED <<call, kmap, mem, workers, input_sigs, target_sigs>>

NextReader == ReaderNext \/ ReaderSend

SpecReader == InitReader /\ [][NextReader]_vars

(***************************************************************************)
(* sliding_window and undo_sliding_window (helpers/audio.py, lines 19-45   *)
(* and 57-65) on the array 1, 2, ..., L, whose samples differ from the     *)
(* zeros of the padding.  A 2-D array is the sequence of its rows.         *)
(***************************************************************************)
Arange(L) == [i \in 1..L |-> i]

\* np.pad(x, (0, n), mode='constant')
PadEnd(x, n) == x \o [i \in 1..n |-> 0]

\* lines 36-39: step, remainder and the padded x; % is Python's, which is
\* never negative for a positive step
Padded(x, size, overlap) ==
    LET step      == size - overlap
        remainder == (Len(x) - size) % step
    IN  IF remainder # 0 THEN PadEnd(x, step - remainder) ELSE x

\* line 41: nwin = (x.shape[-1]-size)//step + 1, with Python's floor division
Nwin(xp, size, overlap) == ((Len(xp) - size) \div (size - overlap)) + 1

\* lines 42-44: the strided view of nwin rows of size samples, row k
\* starting step*k samples into xp; numpy refuses a negative dimension
sliding_window(x, size, overlap) ==
    LET step == size - overlap
        xp   == Padded(x, size, overlap)
        nwin == Nwin(xp, size, overlap)
    IN  IF nwin < 0 THEN [err |-> "ValueError", xp |-> xp, rows |-> <<>>]
        ELSE [err |-> "none", xp |-> xp,
              rows |-> [k \in 1..nwin |-> [j \in 1..size |-> xp[(k - 1) * step + j]]]]

\* x[:, overlap:].flatten()
RECURSIVE FlattenFrom(_, _)
FlattenFrom(rows, overlap) ==
    IF rows = <<>> THEN <<>>
    ELSE SubSeq(rows[1], overlap + 1, Len(rows[1])) \o FlattenFrom(Tail(rows), overlap)

\* undo_sliding_window, lines 57-65: [ndim, data], data a sequence of
\* samples for ndim = 1 and of rows for ndim = 2
undo_sliding_window(rows, overlap) ==
    IF overlap # 0
    THEN IF rows = <<>> THEN [err |-> "IndexError", ndim |-> 0, data |-> <<>>]   \* x[0, 0:overlap]
         ELSE [err |-> "none", ndim |-> 1,
               data |-> SubSeq(rows[1], 1, overlap) \o FlattenFrom(rows, overlap)]
    ELSE [err |-> "none", ndim |-> 2, data |-> rows]

\* what sliding_window returned as w, and undo_sliding_window of it
WindowReturn(L, size, overlap, w) ==
    ret' = [done |-> TRUE, op |-> "sliding_window", x0 |-> Arange(L), size |-> size,
            overlap |-> overlap, err |-> w.err, xp |-> w.xp, rows |-> w.rows,
            undone |-> IF w.err = "none" THEN undo_sliding_window(w.rows, overlap)
                       ELSE [err |-> w.err, ndim |-> 0, data |-> <<>>]]

\* undo_sliding_window(sliding_window(x, size, overlap), overlap)
CallSlidingWindow ==
    /\ ~ret.done
    /\ \E L \in 1..WinLen : \E size \in 1..WinSize : \E overlap \in 0..(size - 1) :
          WindowReturn(L, size, overlap, sliding_window(Arange(L), size, overlap))
    /\ UNCHANGED <<call, kmap, mem, tacfg, workers, input_sigs, target_sigs>>

InitWindow == IdleKnobs /\ IdleMap /\ IdleEffect /\ IdleTA

NextWindow == CallSlidingWindow

SpecWindow == InitWindow /\ [][NextWindow]_vars

(***************************************************************************)
(* The spikes generators: spikes (helpers/audio.py, lines 109-120) and     *)
(* chooser 5 of the older gen_input_sample (signaltrain/audio.py, lines    *)
(* 194-203).  An array is indexed as Python indexes it: -len..-1 count     *)
(* from the end, anything outside -len..len-1 raises IndexError.           *)
(***************************************************************************)
\* the position (1-based) x[idx] names in an array of n samples, 0 if none
PyIndex(idx, n) ==
    IF idx >= 0 /\ idx < n THEN idx + 1
    ELSE IF idx < 0 /\ idx >= -n THEN n + idx + 1
    ELSE 0

\* x[idx] = v on the pair [x, err]
SetItem(o, idx, v) ==
    IF o.err # "none" THEN o
    ELSE IF PyIndex(idx, Len(o.x)) = 0 THEN [o EXCEPT !.err = "IndexError"]
    ELSE [o EXCEPT !.x[PyIndex(idx, Len(o.x))] = v]

\* lines 115-117 and 199-201: x[loc], x[loc+1], x[loc-1], in this order
WriteSpike(o, loc, height) ==
    SetItem(SetItem(SetItem(o, loc, height), loc + 1, RDiv(height, I(2))),
            loc - 1, RDiv(height, I(2)))

\* line 113: `loc = int( int(randfunc()*len(t)-2)+1* t[-1] )`
SpikeLoc(u, n, t_last) ==
    Trunc(RAdd(I(Trunc(RSub(RMul(u, I(n)), I(2)))), RMul(I(1), t_last)))

\* line 197: `loc = int(np.random.random()*len(t)-2)+1`
LegacySpikeLoc(u, n) == Trunc(RSub(RMul(u, I(n)), I(2))) + 1

\* line 114: `height = (2*randfunc()-1)*0.7`
SpikeHeight(u) == RMul(RSub(RMul(I(2), u), I(1)), Rat(7, 10))

\* line 198: `height = np.random.random()-0.5`
LegacySpikeHeight(u) == RSub(u, Rat(1, 2))

\* the loop of lines 112-117 over the draws d (one <<u_loc, u_height>> per spike)
RECURSIVE SpikeLoop(_, _, _)
SpikeLoop(o, d, t_last) ==
    IF d = <<>> \/ o.err # "none" THEN o
    ELSE SpikeLoop(WriteSpike(o, SpikeLoc(d[1][1], Len(o.x), t_last), SpikeHeight(d[1][2])),
                   Tail(d), t_last)

\* the loop of lines 196-201
RECURSIVE LegacySpikeLoop(_, _)
LegacySpikeLoop(o, d) ==
    IF d = <<>> \/ o.err # "none" THEN o
    ELSE LegacySpikeLoop(WriteSpike(o, LegacySpikeLoc(d[1][1], Len(o.x)),
                                    LegacySpikeHeight(d[1][2])),
                         Tail(d))

\* x + amp*noise, sample by sample
AddNoise(o, amp, noise) ==
    IF o.err # "none" THEN o
    ELSE [o EXCEPT !.x = [k \in 1..Len(o.x) |-> RAdd(o.x[k], RMul(amp, noise[k]))]]

\* spikes(t, n_spikes = len(d)) for a time axis of n stamps ending at t_last
\* (lines 109-120); u_amp and noise are the draws of lines 119-120
spikes(n, t_last, d, u_amp, noise) ==
    AddNoise(SpikeLoop([x |-> Zeros(n), err |-> "none"], d, t_last),
             RMul(Rat(1, 10), u_amp), noise)

\* gen_input_sample(t, chooser=5) with len(d) spikes (lines 150 and 194-203)
gen_input_sample_5(n, d, noise) ==
    AddNoise(LegacySpikeLoop([x |-> Zeros(n), err |-> "none"], d), Rat(1, 10), noise)

\* the values randfunc() and np.random.random() return, in [0, 1)
SpikeDraws == {I(0), Rat(1, 4), Rat(1, 2), Rat(9, 10)}

\* the draws deciding the heights
HeightDraws == {I(0), Rat(3, 4)}

\* the last stamp t[-1] of the time axis
LastStamps == {Rat(1, 2), I(1), I(3)}

\* the locations of the spikes drawn, in the order of the loop
SpikeLocs(d, n, t_last) == [k \in 1..Len(d) |-> SpikeLoc(d[k][1], n, t_last)]

LegacySpikeLocs(d, n) == [k \in 1..Len(d) |-> LegacySpikeLoc(d[k][1], n)]

SpikesReturn(op, n, t_last, d, locs, o) ==
    ret' = [done |-> TRUE, op |-> op, n |-> n, t_last |-> t_last, draws |-> d,
            locs |-> locs, err |-> o.err, x |-> o.x]

\* one call of spikes(t, n_spikes)
CallSpikes ==
    /\ ~ret.done
    /\ \E n \in 3..SpikeLen : \E t_last \in LastStamps : \E n_spikes \in 1..MaxSpikes :
       \E d \in SeqsOf(SpikeDraws \X HeightDraws, n_spikes) :
       \E u_amp \in HeightDraws : \E g \in OutChoices :
          SpikesReturn("spikes", n, t_last, d, SpikeLocs(d, n, t_last),
                       spikes(n, t_last, d, u_amp, [k \in 1..n |-> g]))
    /\ UNCHANGED <<call, kmap, mem, tacfg, workers, input_sigs, target_sigs>>

\* one call of gen_input_sample(t, chooser=5)
CallGenInputSample5 ==
    /\ ~ret.done
    /\ \E n \in 3..SpikeLen : \E t_last \in LastStamps : \E n_spikes \in 1..MaxSpikes :
       \E d \in SeqsOf(SpikeDraws \X HeightDraws, n_spikes) :
       \E g \in OutChoices :
          SpikesReturn("gen_input_sample_5", n, t_last, d, LegacySpikeLocs(d, n),
                       gen_input_sample_5(n, d, [k \in 1..n |-> g]))
    /\ UNCHANGED <<call, kmap, mem, tacfg, workers, input_sigs, target_sigs>>

InitSpikes == IdleKnobs /\ IdleMap /\ IdleEffect /\ IdleTA

NextSpikes == CallSpikes \/ CallGenInputSample5

SpecSpikes == InitSpikes /\ [][NextSpikes]_vars

(***************************************************************************)
(* Claims about int2knobs, checked under SpecKnobs.                        *)
(***************************************************************************)
\* the digit of idx in base sp that belongs to knob k (1-based) of nk knobs:
\* the last knob holds the least-significant digit
Digit(idx, sp, nk, k) == (idx \div Pow(sp, nk - k)) % sp

\* min + d*(max - min)/(sp - 1)
GridValue(range, d, sp) ==
    RAdd(range[1], RDiv(RMul(I(d), RSub(range[2], range[1])), I(sp - 1)))

DigitsScaled ==
    /\ call.err = "none"
    /\ Len(call.knobs) = Len(call.kr)
    /\ \A k \in 1..Len(call.kr) :
          FEq(call.knobs[k],
              GridValue(call.kr[k], Digit(call.idx, call.sp, Len(call.kr), k), call.sp))

InRangeCall == call.done /\ call.idx < Pow(call.sp, Len(call.kr))

\* C1 as stated: for every settings_per and every idx in [0, sp^nk), int2knobs
\* returns nk values, the k-th being min_k + d_k*(max_k - min_k)/(sp - 1)
\* with d_k the base-sp digit of idx, last knob least significant.
C1_Original == InRangeCall => DigitsScaled

\* C1 amended: the same for every settings_per >= 2 (with settings_per = 1
\* and at least one knob the increment (max - min)/(sp - 1) divides by zero).
C1_DigitsScaled == (InRangeCall /\ call.sp >= 2) => DigitsScaled

\* C1 witness: a 2-knob call with two different ranges, base 3, idx = 5 = "12"
C1_Witness ==
    /\ InRangeCall /\ call.sp = 3 /\ call.idx = 5
    /\ call.kr = << <<I(1), I(6)>>, <<Rat(-1, 2), Rat(1, 2)>> >>
    /\ call.knobs = << Rat(7, 2), Rat(1, 2) >>

OthersDiffer ==
    \A idx2 \in 0..(Pow(call.sp, Len(call.kr)) - 1) :
        idx2 # call.idx =>
            LET other == Int2Knobs(idx2, call.kr, call.sp)
            IN  other.err = "none" /\ call.err = "none" /\ other.knobs # call.knobs

NoFlatRange == \A k \in 1..Len(call.kr) : call.kr[k][1] # call.kr[k][2]

\* C2 as stated: for any knob-range list and any settings_per, two different
\* indices in [0, sp^nk) never yield the same knob vector.
C2_Original == InRangeCall => OthersDiffer

\* C2 amended: the same for every knob-range list in which every knob has
\* max # min (a knob with max = min takes the same value for every digit).
C2_Distinct == (InRangeCall /\ NoFlatRange) => OthersDiffer

\* C2 witness: a 2-knob call in base 3 over non-flat ranges, so 8 other indices
C2_Witness ==
    /\ InRangeCall /\ NoFlatRange /\ call.sp = 3 /\ Len(call.kr) = 2
    /\ call.idx = 4 /\ call.err = "none"

\* C3: whenever idx >= settings_per^num_knobs int2knobs fails with an error
\* and returns no knob vector.
C3_OutOfRangeFails ==
    (call.done /\ call.idx >= Pow(call.sp, Len(call.kr)))
        => (call.err = "AssertionError" /\ call.knobs = <<>>)

\* C3 witness: idx = sp^nk exactly, for a 2-knob list in base 2
C3_Witness ==
    /\ call.done /\ Len(call.kr) = 2 /\ call.sp = 2 /\ call.idx = 4
    /\ call.err = "AssertionError"

(***************************************************************************)
(* Claims about the knob mapping, checked under SpecMap.                   *)
(***************************************************************************)
\* C4 as stated: for every knob of every declared effect and every physical
\* value v in [min, max], the normalised value (v - min)/(max - min) - 0.5 is
\* defined and Effect.knobs_wc maps it back to v.
C4_Original ==
    (kmap.done /\ kmap.op = "roundtrip") =>
        /\ ~NpIsError(kmap.knobs_nn) /\ ~NpIsError(kmap.knobs_out)
        /\ \A k \in 1..Len(knob_ranges(kmap.effect)) :
              /\ IsFinite(kmap.knobs_nn.data[k])
              /\ FEq(kmap.knobs_out.data[k], kmap.knobs_in.data[k])

\* C5 as stated: knobs_wc fails, and produces no physical vector, whenever
\* the normalised input is not a vector of exactly num_knobs components.
C5_Original ==
    (/\ kmap.done /\ kmap.op = "knobs_wc"
     /\ kmap.knobs_in.shape # <<Len(knob_ranges(kmap.effect))>>)
        => NpIsError(kmap.knobs_out)

(***************************************************************************)
(* Claims about Effect.go / go_wc, checked under SpecEffect.               *)
(***************************************************************************)
Returned == ret.done /\ ret.err = "none"

\* C6: for every ordinary (is_inverse = False) effect, go_wc returns a pair
\* whose second element is the given x, every sample unchanged, and the call
\* does not modify the caller's x.
C6_InputEchoedBack ==
    (ret.done /\ ~is_inverse(ret.effect)) =>
        /\ ret.err = "none"
        /\ ret.x = 1
        /\ mem[1] = ret.x0
        /\ ret.y # 1

\* C6 witness: the 4-knob compressor has run on a signal with a negative
\* sample (whose absolute value and dB level the code computes)
C6_Witness ==
    /\ Returned /\ ret.effect = "Compressor_4c"
    /\ ret.x0 = <<I(-1), Rat(1, 2)>> /\ mem[ret.y] # ret.x0

\* input is target shifted by s without wraparound
ShiftedBy(target, input, s) ==
    /\ Len(input) = Len(target)
    /\ \A n \in 1..Len(input) :
          input[n] = IF n - s >= 1 /\ n - s <= Len(target) THEN target[n - s] ELSE I(0)

Noisy(x0, strength, noise) ==
    [n \in 1..Len(x0) |-> RAdd(x0[n], RMul(strength, noise[n]))]

\* C7: for every is_inverse effect, after `y, x = effect.go(x, knobs)` the
\* training input x is the perturbed signal (noisy or time-shifted) and the
\* training target y is the original or the freshly synthesized signal.
C7_InverseRoles ==
    (Returned /\ is_inverse(ret.effect)) =>
        IF ret.effect = "Denoise"
        THEN /\ ret.y = 1 /\ mem[ret.y] = ret.x0
             /\ ret.x # 1 /\ mem[ret.x] = Noisy(ret.x0, ret.knobs_w[1], ret.draw.noise)
        ELSE /\ mem[ret.y] = ret.draw.target
             /\ ret.x # ret.y
             /\ \E s \in -TAChunk..TAChunk : ShiftedBy(mem[ret.y], mem[ret.x], s)

\* C7 witness: TimeAlign returned an input that is its target moved by one
\* sample, and differs from it
C7_Witness ==
    /\ Returned /\ ret.effect = "TimeAlign"
    /\ mem[ret.y] = <<Rat(1, 2), I(-1)>> /\ mem[ret.x] = <<I(0), Rat(1, 2)>>

\* C8 as stated: for Denoise the noisy signal (original plus strength-scaled
\* noise) becomes the target and the clean original becomes the input.
C8_Original ==
    (Returned /\ ret.effect = "Denoise") =>
        /\ mem[ret.y] = Noisy(ret.x0, ret.knobs_w[1], ret.draw.noise)
        /\ mem[ret.x] = ret.x0

\* C8 amended: for Denoise the clean original becomes the target and the
\* noisy signal (original plus strength-scaled noise) becomes the input.
C8_CleanIsTarget ==
    (Returned /\ ret.effect = "Denoise") =>
        /\ mem[ret.y] = ret.x0
        /\ mem[ret.x] = Noisy(ret.x0, ret.knobs_w[1], ret.draw.noise)

\* C8 witness: Denoise has run with noise that changes a sample
C8_Witness ==
    /\ Returned /\ ret.effect = "Denoise" /\ ret.knobs_w[1] = Rat(1, 2)
    /\ ret.x0 = <<I(0), Rat(1, 2)>> /\ ret.draw.noise = <<I(-1), Rat(1, 2)>>
    /\ mem[ret.x] = <<Rat(-1, 2), Rat(3, 4)>>

\* C9 as stated: for every x and every strength in the declared range,
\* TimeAlign.go_wc completes without error and returns (target, input) where
\* input is target shifted, without wraparound, by an integer s with
\* |s| <= strength*len(x).
C9_Original ==
    (ret.done /\ ret.effect = "TimeAlign") =>
        /\ ret.err = "none"
        /\ \E s \in -Len(ret.x0)..Len(ret.x0) :
              /\ RLe(I(Abs(s)), RMul(ret.knobs_w[1], I(Len(ret.x0))))
              /\ ShiftedBy(mem[ret.y], mem[ret.x], s)

(***************************************************************************)
(* Claims about ta_oneproc, checked under SpecTA.                          *)
(***************************************************************************)
\* C10: in ta_oneproc, for every event number and every jitter, with
\* strength = 1.0 the target onset index equals grid_index =
\* int(eventnum*event_len) + int(chunk_size/2), and with strength = 0.0 it
\* equals the jittered onset index at which the event is written into the
\* input row.
C10_GridProperty ==
    \A c \in 1..Len(workers) :
        workers[c].idx.set =>
            LET idx == workers[c].idx
            IN  /\ tacfg.strength = I(1) =>
                      idx.itarget_bgn =
                          idx.eventnum * tacfg.event_len + (tacfg.chunk_size \div 2)
                /\ tacfg.strength = I(0) =>
                      /\ idx.itarget_bgn = idx.iinput_bgn
                      /\ idx.itarget_bgn = idx.grid_index + idx.random_shift

\* C10 witness: with strength 0 an event was written off the grid, at the
\* same place in both rows
C10_Witness ==
    \E c \in 1..Len(workers) :
        /\ workers[c].idx.set /\ tacfg.strength = I(0)
        /\ workers[c].idx.random_shift < 0
        /\ workers[c].pc = "events"
        /\ target_sigs[c][workers[c].idx.itarget_bgn + 1] = <<2 + workers[c].idx.eventnum, 0>>
        /\ input_sigs[c][workers[c].idx.itarget_bgn + 1] = <<2 + workers[c].idx.eventnum, 0>>

\* the uniform grid position of event number n
GridOf(n) == n * tacfg.event_len + (tacfg.chunk_size \div 2)

\* strength*a + (1 - strength)*b, truncated as int() does
Blend(a, b) ==
    Trunc(RAdd(RMul(tacfg.strength, I(a)), RMul(RSub(I(1), tacfg.strength), I(b))))

\* C11 as stated: for every strength each event's target position is
\* exactly the uniform grid index, while its input position is the blend of
\* grid position and jittered position weighted by strength.
C11_Original ==
    \A c \in 1..Len(workers) :
        workers[c].idx.set =>
            LET idx == workers[c].idx
                g   == GridOf(idx.eventnum)
            IN  /\ idx.itarget_bgn = g
                /\ idx.iinput_bgn = Blend(g, g + idx.random_shift)

\* C11 amended: for every strength each event's input position is the
\* jittered position grid_index + random_shift, while its target position
\* is the blend int(strength*grid_index + (1-strength)*input_index):
\* strength = 1 puts the target on the grid, strength = 0 puts it at the
\* jittered position.
C11_TargetBlended ==
    \A c \in 1..Len(workers) :
        workers[c].idx.set =>
            LET idx == workers[c].idx
                g   == GridOf(idx.eventnum)
            IN  /\ idx.iinput_bgn = g + idx.random_shift
                /\ idx.itarget_bgn = Blend(g, g + idx.random_shift)

\* C11 witness: with strength 1/2 and a jitter of two samples the event was
\* written one sample off the grid in the target row and two in the input row
C11_Witness ==
    \E c \in 1..Len(workers) :
        /\ workers[c].idx.set /\ workers[c].pc = "events"
        /\ tacfg.strength = Rat(1, 2)
        /\ workers[c].idx.random_shift = -2
        /\ workers[c].idx.itarget_bgn = GridOf(workers[c].idx.eventnum) - 1
        /\ target_sigs[c][GridOf(workers[c].idx.eventnum)] = <<2 + workers[c].idx.eventnum, 0>>
        /\ input_sigs[c][GridOf(workers[c].idx.eventnum) - 1] = <<2 + workers[c].idx.eventnum, 0>>

\* C12 as stated: for every chunk_size, every num_events >= 1, every strength
\* and every jitter draw, each event write of ta_oneproc succeeds: the begin
\* index is non-negative and not past the chunk end, the destination slice
\* lies within [0, chunk_size), and the source slice event[0:end-bgn] has the
\* length of the destination slice.
C12_Original ==
    \A c \in 1..Len(workers) :
        (tacfg.num_events >= 1 /\ workers[c].idx.set) =>
            LET idx == workers[c].idx
            IN  /\ workers[c].pc # "raised"
                /\ 0 <= idx.itarget_bgn /\ idx.itarget_bgn <= idx.itarget_end
                /\ idx.itarget_end <= tacfg.chunk_size
                /\ 0 <= idx.iinput_bgn /\ idx.iinput_bgn <= idx.iinput_end
                /\ idx.iinput_end <= tacfg.chunk_size

(***************************************************************************)
(* Claims about the two pair generators, checked under SpecPairs.          *)
(***************************************************************************)
IsTimeAlign == "num_events" \in DOMAIN tacfg

\* the rows a sequential run leaves for chunk c, given the chunk's draws
SequentialRows(c) ==
    IF IsTimeAlign THEN SeqChunk(workers[c].draws)
    ELSE [target |-> [n \in 1..Len(workers[c].draws) |-> <<"sin", workers[c].draws[n]>>],
          input  |-> [n \in 1..Len(workers[c].draws) |-> <<"cos", workers[c].draws[n]>>]]

\* when the generator returns, every call has ended with all its draws made
\* and every row is the row of a sequential run with the same draws
ReturnedRows ==
    tacfg.result = "returned" =>
        \A c \in 1..tacfg.num_chunks :
            /\ workers[c].pc \in {"done", "psp_done"}
            /\ Len(workers[c].draws) =
                  (IF IsTimeAlign THEN tacfg.num_events ELSE tacfg.num_waves)
            /\ target_sigs[c] = SequentialRows(c).target
            /\ input_sigs[c] = SequentialRows(c).input

\* what a call has read for a pending `+=` is its own row with the new wave
OwnRowRead ==
    \A c \in 1..Len(workers) :
        /\ workers[c].pc = "psp_write_input" =>
              workers[c].tmp = Append(input_sigs[c], <<"cos", workers[c].draws[Len(workers[c].draws)]>>)
        /\ workers[c].pc = "psp_write_target" =>
              workers[c].tmp = Append(target_sigs[c], <<"sin", workers[c].draws[Len(workers[c].draws)]>>)

\* a step leaves the rows of the calls that did not take it as they were
OwnRowWritten ==
    \A d \in 1..Len(workers) :
        workers'[d] = workers[d] =>
            /\ input_sigs'[d] = input_sigs[d]
            /\ target_sigs'[d] = target_sigs[d]

\* C13: in gen_timealign_pairs and gen_pitch_shifted_pairs, under every
\* interleaving of the pool workers the worker for chunk index i reads and
\* writes only row i of input_sigs and target_sigs, all rows are written
\* before the function returns, and the returned buffers equal those of the
\* sequential mode given the same per-chunk random draws.
C13_DisjointRows ==
    /\ [](ReturnedRows /\ OwnRowRead)
    /\ [][OwnRowWritten]_vars

\* C13 witness: a parallel run of gen_timealign_pairs over two chunks has
\* returned, the chunks having drawn different jitters and received
\* different input rows
C13_Witness ==
    /\ IsTimeAlign /\ tacfg.parallel /\ tacfg.result = "returned"
    /\ tacfg.num_chunks = 2 /\ tacfg.num_events = 2
    /\ workers[1].draws # workers[2].draws
    /\ input_sigs[1] # input_sigs[2]

(***************************************************************************)
(* Claims about the random draws of the pool workers, under SpecRNG.       *)
(***************************************************************************)
\* C14 as stated: each parallel worker draws from its own source, so no two
\* concurrently running workers advance one shared random-number state and
\* the draws a chunk receives do not depend on how the workers interleave:
\* the k-th draw of a chunk is the k-th value of that chunk's own stream,
\* and the process-wide generator is advanced by at most one worker.
C14_Original ==
    tacfg.parallel =>
        /\ \A c \in 1..Len(workers) :
              \A k \in 1..Len(workers[c].draws) : workers[c].draws[k] = k
        /\ \A c, d \in 1..Len(workers) :
              (workers[c].draws # <<>> /\ workers[d].draws # <<>>) => c = d

(***************************************************************************)
(* Claims about undefined processing, checked under SpecUndefined.         *)
(***************************************************************************)
\* C15 as stated: applying an effect whose processing is undefined fails
\* fast: Effect.go on an effect that does not override go_wc raises instead
\* of returning a value, and functions(x, f) with an unknown effect name
\* raises instead of returning x.
C15_Original ==
    /\ (ret.done /\ ret.op = "go") => (ret.err # "none" /\ ret.value = "")
    /\ (ret.done /\ ret.op = "functions" /\ ret.f \notin FunctionNames) =>
          (ret.err # "none" /\ ret.value = "")

\* the second half of C15: functions(x, f) with an unknown name raises
C15_UnknownNameRaises ==
    (ret.done /\ ret.op = "functions" /\ ret.f \notin FunctionNames) =>
        (ret.err = "AssertionError" /\ ret.value = "")

(***************************************************************************)
(* Claims about AudioFileDataSet's constructor, checked under SpecFiles.   *)
(***************************************************************************)
\* the i-th sorted input file and the i-th sorted target file have the same
\* number, for every i
Paired ==
    /\ Len(ret.input_filenames) = Len(ret.target_filenames)
    /\ \A i \in 1..Len(ret.input_filenames) :
          ret.input_filenames[i].id = ret.target_filenames[i].id

\* C16 as stated: the construction aborts with an error whenever the input
\* and target file lists are mismatched (their counts differ, or the i-th
\* sorted input file does not correspond to the i-th sorted target file).
C16_Original ==
    (ret.done /\ ret.op = "AudioFileDataSet" /\ ~Paired) => ret.err # "none"

\* the first half of C16: lists of different lengths stop the constructor
C16_CountsChecked ==
    (ret.done /\ ret.op = "AudioFileDataSet"
        /\ Len(ret.input_filenames) # Len(ret.target_filenames)) =>
            ret.err = "AssertionError"

(***************************************************************************)
(* Claims about do_augment, checked under SpecAugment.                     *)
(***************************************************************************)
\* a is b, or a is b with every sample negated when inverted
UpToSign(a, b, inverted) == a = (IF inverted THEN NegArray(b) ELSE b)

\* a and b have the same samples from Python index `from` on
SameFrom(a, b, from) ==
    /\ Len(a) = Len(b)
    /\ \A n \in (from + 1)..Len(a) : a[n] = b[n]

\* C19: for every x and y with len(x) >= len(y), do_augment changes y only
\* by an optional sign inversion applied identically to x and y, and changes
\* x (apart from that sign) only at indices inside the lookback region
\* [0, len(x) - len(y)); the last len(y) samples of x are never perturbed.
\* This holds of the arrays returned and of the arrays the caller passed.
C19_OnlyLookbackPerturbed ==
    (ret.done /\ ret.op = "do_augment") =>
        LET lookback == Len(ret.x0) - Len(ret.y0)
            inverted == ret.rand_invert /\ ret.draw.coin_invert
        IN  /\ mem[2] = ret.y0
            /\ SameFrom(mem[1], ret.x0, lookback)
            /\ ret.err = "none" =>
                  /\ UpToSign(mem[ret.y], ret.y0, inverted)
                  /\ SameFrom(mem[ret.x],
                              IF inverted THEN NegArray(ret.x0) ELSE ret.x0, lookback)

\* C19 witness: a call that inverted the sign and then changed a sample of
\* the lookback region of x
C19_Witness ==
    /\ ret.done /\ ret.op = "do_augment" /\ ret.err = "none"
    /\ ret.draw.coin_invert /\ ret.draw.coin_add /\ Len(ret.draw.add_idx) = 1
    /\ Len(ret.y0) = 2
    /\ mem[ret.y] = NegArray(ret.y0)
    /\ mem[ret.x] # NegArray(ret.x0)

FileItem == ret.done /\ ret.op = "file_item"

SynthItem == ret.done /\ ret.op = "synth_item"

\* C17: get_single_chunk fails with a descriptive error, before it slices,
\* whenever chunk_size is larger than the length of the selected audio; and
\* whenever it gets past that check the window it cuts satisfies 0 <= ibgn
\* and ibgn + chunk_size <= len(in_audio), so that the input chunk has
\* exactly chunk_size samples.
C17_WindowInside ==
    FileItem =>
        /\ tacfg.chunk_size > tacfg.audio_len =>
              /\ ret.err = "AssertionError"
              /\ ret.message # ""
              /\ ret.x_item = <<>>
        /\ ret.err # "AssertionError" =>
              /\ 0 <= ret.ibgn
              /\ ret.ibgn + tacfg.chunk_size <= tacfg.audio_len
              /\ Len(ret.x_item) = tacfg.chunk_size

\* C17 witness: an item was returned whose window does not start at the
\* first sample of the audio
C17_Witness ==
    /\ FileItem /\ ret.err = "none"
    /\ ret.ibgn >= 1
    /\ tacfg.chunk_size >= 2
    /\ Len(ret.x_item) = tacfg.chunk_size

\* a knob vector of n components, each in [-0.5, 0.5]
NormalisedKnobs(k, n) ==
    /\ Len(k.data) = n
    /\ \A i \in 1..Len(k.data) :
          ~IsNaN(k.data[i]) /\ RLe(Rat(-1, 2), k.data[i]) /\ RLe(k.data[i], Rat(1, 2))

\* C18: every item either dataset returns, for every effect and every
\* configuration with y_size <= chunk_size, has an input of exactly
\* chunk_size samples, a target of exactly y_size samples and a knob vector
\* of num_knobs components, each in [-0.5, 0.5].
C18_Original ==
    ((FileItem \/ SynthItem) /\ ret.err = "none") =>
        /\ Len(ret.input) = tacfg.chunk_size
        /\ Len(ret.target) = tacfg.y_size
        /\ NormalisedKnobs(ret.knobs, Len(knob_ranges(tacfg.effect)))

\* every sample of x stamped before the time t0 is exactly zero
SilentBefore(x, t, t0) == \A n \in 1..Len(x) : RLt(t[n], t0) => x[n] = I(0)

\* the earliest of the onsets of a generated pluck: that of its envelope
\* and those of its tones
RECURSIVE Earliest(_)
Earliest(S) ==
    IF Cardinality(S) = 1 THEN CHOOSE a \in S : TRUE
    ELSE LET a == CHOOSE a \in S : TRUE
             m == Earliest(S \ {a})
         IN  IF RLt(a, m) THEN a ELSE m

\* C20: for every output of helpers.pluck (synth_input_sample with chooser
\* 2) and of gen_input_sample with chooser 2, every sample whose time stamp
\* is before the onset t0 is exactly zero.  The onset is taken as late as a
\* reader could: for pluck only samples before the envelope's onset and
\* before every tone's t0 are required to be zero.
C20_Original ==
    (ret.done /\ ret.op \in {"pluck", "gen_input_sample"}) =>
        SilentBefore(ret.x, ret.t, Earliest(ret.phases \cup {ret.t0}))

\* the part of C20 that holds: gen_input_sample with chooser 2 is exactly
\* zero before its onset t0
C20_LegacySilent ==
    (ret.done /\ ret.op = "gen_input_sample") => SilentBefore(ret.x, ret.t, ret.t0)

CompressorCall == ret.done /\ ret.op \in {"compressor", "compressor_new_fast"}

\* no level the compressor computed (the envelope in_env of compressor, the
\* clipped x_dB of compressor_new_fast) exceeds the threshold
BelowThreshold == \A n \in 1..Len(ret.levels) : RLe(ret.levels[n], ret.thresh)

\* C21: for both compressors, when the threshold is above the signal's peak
\* level, so that no sample's level or envelope exceeds it, the gain applied
\* to every sample is exactly 0 dB and the output equals the input sample
\* for sample.
C21_UnityGain ==
    (CompressorCall /\ BelowThreshold) =>
        /\ \A n \in 1..Len(ret.gain_dB) : ret.gain_dB[n] = I(0)
        /\ mem[ret.y] = ret.x0
        /\ mem[1] = ret.x0

\* C21 witness: compressor_new_fast ran with ratio 5 on a signal of more than
\* one sample with a non-zero sample, all of whose levels are below thresh
C21_Witness ==
    /\ ret.done /\ ret.op = "compressor_new_fast" /\ BelowThreshold
    /\ ret.ratio = I(5) /\ Len(ret.x0) >= 2
    /\ \E n \in 1..Len(ret.x0) : ret.x0[n] # I(0)
    /\ mem[ret.y] = ret.x0

\* s[n] = (1-a)*g[n] + a*s[n-1] with s[-1] = 0, computed from the front
RECURSIVE Smoothed(_, _, _, _)
Smoothed(n, g, alphaA, alphaR) ==
    LET prev == IF n = 1 THEN I(0) ELSE Smoothed(n - 1, g, alphaA, alphaR)
        a    == IF RLt(g[n], prev) THEN alphaA ELSE alphaR
    IN  RAdd(RMul(RSub(I(1), a), g[n]), RMul(a, prev))

\* C22: in compressor_new_fast the smoothed gain is, for n = 0..N-1 in
\* order, s[n] = (1-a)*g[n] + a*s[n-1] with a = alphaA when g[n] < s[n-1]
\* and alphaR otherwise, g the static gain change, and s[-1] = 0 for every
\* length N >= 1, N = 1 included.
C22_SmoothedFromZero ==
    (ret.done /\ ret.op = "compressor_new_fast") =>
        /\ Len(ret.gain_dB) = Len(ret.x0)
        /\ \A n \in 1..Len(ret.x0) :
              ret.gain_dB[n] = Smoothed(n, ret.gainChange_dB, ret.alphaA, ret.alphaR)

\* C22 witness: a one-sample signal above the threshold, whose gain is
\* smoothed from 0 with the attack coefficient
C22_Witness ==
    /\ ret.done /\ ret.op = "compressor_new_fast"
    /\ Len(ret.x0) = 1
    /\ RLt(ret.gainChange_dB[1], I(0))
    /\ ret.alphaA # ret.alphaR
    /\ ret.gain_dB[1] = RMul(RSub(I(1), ret.alphaA), ret.gainChange_dB[1])

RAbs(a) == <<Abs(a[1]), a[2]>>

\* C29: for every signal, threshold and ratio >= 1, both compressors apply a
\* gain of at most unity at every sample: the dB gain is <= 0 at every
\* index and |y[n]| <= |x[n]|.
C29_GainAtMostUnity ==
    (CompressorCall /\ RLe(I(1), ret.ratio)) =>
        /\ \A n \in 1..Len(ret.gain_dB) : RLe(ret.gain_dB[n], I(0))
        /\ Len(mem[ret.y]) = Len(ret.x0)
        /\ \A n \in 1..Len(ret.x0) : RLe(RAbs(mem[ret.y][n]), RAbs(ret.x0[n]))

\* C29 witness: compressor reduced a sample whose envelope is above thresh
C29_Witness ==
    /\ ret.done /\ ret.op = "compressor" /\ ret.ratio = I(2)
    /\ \E n \in 1..Len(ret.x0) :
          /\ RLt(ret.thresh, ret.levels[n])
          /\ RLt(ret.gain_dB[n], I(0))
          /\ RLt(RAbs(mem[ret.y][n]), RAbs(ret.x0[n]))

\* x[m] for a 0-based index m, and 0 for m < 0
SampleAt(x, m) == IF m < 0 THEN I(0) ELSE x[m + 1]

\* ratio^k * ((1 - f_k)*x[n - D_k] + f_k*x[n - D_k - 1]) with
\* D_k = floor(k*delay_samples) and f_k = k*delay_samples - D_k
EchoTerm(x, n, k, delay_samples, ratio) ==
    LET D == Floor(RMul(I(k), delay_samples))
        f == RSub(RMul(I(k), delay_samples), I(D))
    IN  RMul(RPow(ratio, k),
             RAdd(RMul(RSub(I(1), f), SampleAt(x, n - D)),
                  RMul(f, SampleAt(x, n - D - 1))))

RECURSIVE EchoSum(_, _, _, _, _)
EchoSum(x, n, k, delay_samples, ratio) ==
    IF k = 0 THEN x[n + 1]
    ELSE RAdd(EchoSum(x, n, k - 1, delay_samples, ratio),
              EchoTerm(x, n, k, delay_samples, ratio))

EchoIsSum ==
    /\ ret.err = "none"
    /\ Len(mem[ret.y]) = Len(ret.x0)
    /\ \A n \in 0..(Len(ret.x0) - 1) :
          mem[ret.y][n + 1] = EchoSum(ret.x0, n, ret.echoes, ret.delay_samples, ret.ratio)

\* C23: for every signal x, every echoes count E >= 0 and every
\* delay_samples > 0, integer or fractional, below 1 and longer than the
\* signal included, echo returns y of the length of x with
\* y[n] = x[n] + sum over k = 1..E of
\*        ratio^k * ((1 - f_k)*x[n - D_k] + f_k*x[n - D_k - 1]).
C23_Original == (ret.done /\ ret.op = "echo") => EchoIsSum

\* the part of C23 that holds: the same, for delays of at least one sample
C23_DelayOfASampleOrMore ==
    (ret.done /\ ret.op = "echo" /\ RLe(I(1), ret.delay_samples)) => EchoIsSum

SuperpositionAsked ==
    tacfg.done /\ tacfg.given /\ Variant(tacfg.fn, tacfg.chooser) = "superposition"

\* the request ended with the average of two signals, neither of them a
\* superposition, after exactly two nested generator calls one level deep
AverageOfTwo ==
    /\ ret.err = "none"
    /\ ret.signal.variant = "superposition"
    /\ Len(ret.signal.parts) = 2
    /\ \A k \in 1..Len(ret.signal.parts) : ret.signal.parts[k].variant # "superposition"
    /\ tacfg.calls = 2
    /\ tacfg.depth = 1

\* C24: a superposition request terminates with a signal: synth_input_sample
\* makes exactly two nested generator calls, neither of which can select the
\* superposition variant (nesting of depth at most 1), and the superposition
\* branch of gen_input_sample likewise returns the average of two generated
\* signals.
C24_Original ==
    /\ Len(workers) <= 2
    /\ (SuperpositionAsked /\ ret.done) => AverageOfTwo

\* the part of C24 that holds: the same, of synth_input_sample alone
C24_HelpersDepthOne ==
    /\ Len(workers) <= 2
    /\ (SuperpositionAsked /\ tacfg.fn = "synth_input_sample" /\ ret.done) => AverageOfTwo
    /\ (SuperpositionAsked /\ tacfg.fn = "synth_input_sample") => tacfg.calls <= 2

\* the variants of the family
Family == {"sine", "pluck", "triangle", "box", "spikes", "white noise", "superposition"}

\* the variants a default choice among the choosers in options can give
Outcomes(fn, options) == { Variant(fn, c) : c \in options }

\* C25: when the chooser is unspecified, both generators pick over the whole
\* closed set of variants: every variant of the family (sine, pluck,
\* triangle, box, spikes, white noise and superposition) is a possible
\* outcome of the default choice.
C25_Original ==
    \A k \in 1..Len(workers) :
        workers[k].options # {} =>
            Family \subseteq Outcomes(workers[k].fn, workers[k].options)

\* what the default choice does range over
C25_DefaultOutcomes ==
    \A k \in 1..Len(workers) :
        workers[k].options # {} =>
            Outcomes(workers[k].fn, workers[k].options) =
                IF workers[k].fn = "synth_input_sample"
                THEN {"sine", "noisy sine", "pluck", "triangle", "box", "spikes", "noisy box"}
                ELSE {"sine", "fixed sine", "pluck", "triangle"}

\* C26: readaudio_generator with random_every=False steps through the
\* current file: the k-th window yielded from a file (k = 0, 1, ...) is
\* data[k*seq_size : (k+1)*seq_size] of that file and has exactly seq_size
\* samples; a new file is read only on the first call or after send(True),
\* and after each read the switch flag is reset.
C26_Original ==
    (ret.done /\ tacfg.done) =>
        /\ Len(ret.xraw) = tacfg.seq_size
        /\ ret.xraw = DataWindow(FileData(ret.file), ret.k * tacfg.seq_size, tacfg.seq_size)
        /\ tacfg.reads = 1 + tacfg.asked
        /\ ~tacfg.read_new_file

\* the part of C26 that holds: files are read on the first call and after
\* send(True) only, the flag is reset after each read, and every window is
\* data[start:start+seq_size] of the current file for the running start
C26_ReadsOnRequest ==
    tacfg.done =>
        /\ tacfg.reads = 1 + tacfg.asked
        /\ ~tacfg.read_new_file
        /\ tacfg.start = (tacfg.calls - 1) * tacfg.seq_size
        /\ ret.xraw = DataWindow(FileData(ret.file), tacfg.start, tacfg.seq_size)

\* row k (from 0) of rows is xp[k*step : k*step + size]
RowsOfPadded ==
    LET step == ret.size - ret.overlap
    IN  \A k \in 1..Len(ret.rows) :
           ret.rows[k] = [j \in 1..ret.size |-> ret.xp[(k - 1) * step + j]]

\* the last overlap samples of a row are the first overlap of the next
RowsOverlap ==
    \A k \in 1..(Len(ret.rows) - 1) :
       SubSeq(ret.rows[k], ret.size - ret.overlap + 1, ret.size)
           = SubSeq(ret.rows[k + 1], 1, ret.overlap)

\* every sample of x is in some row
RowsCover ==
    \A i \in 1..Len(ret.x0) :
       \E k \in 1..Len(ret.rows) : \E j \in 1..ret.size : ret.rows[k][j] = ret.x0[i]

WindowsOfX ==
    /\ ret.err = "none"
    /\ ret.xp = PadEnd(ret.x0, Len(ret.xp) - Len(ret.x0))
    /\ RowsOfPadded /\ RowsOverlap /\ RowsCover

\* C27: for every 1-D array x of length L >= 1 and every size > overlap >= 0
\* sliding_window returns rows of which row k is xp[k*step : k*step + size],
\* xp being x padded at the end with zeros; consecutive rows share exactly
\* overlap samples, every sample of x is in some row, and
\* undo_sliding_window of the result with the same overlap gives back the
\* 1-D xp.
C27_Original ==
    (ret.done /\ ret.op = "sliding_window") =>
        /\ WindowsOfX
        /\ ret.undone.err = "none" /\ ret.undone.ndim = 1 /\ ret.undone.data = ret.xp

\* the part of C27 that holds: the rows, for an array at least a window
\* long, and the round trip for a non-zero overlap
C27_AtLeastOneWindow ==
    (ret.done /\ ret.op = "sliding_window" /\ Len(ret.x0) >= ret.size) =>
        /\ WindowsOfX
        /\ ret.overlap # 0 =>
              ret.undone.err = "none" /\ ret.undone.ndim = 1 /\ ret.undone.data = ret.xp

\* a preloaded item was returned
PreloadItem == ret.done /\ ret.op = "preload_item"

\* C28: with preload = True get_single_chunk leaves self.x, self.y and
\* self.knobs as preload_audio loaded them, and the chunks it returns are
\* no views of these buffers.
C28_Original ==
    PreloadItem =>
        /\ input_sigs = tacfg.loaded_x
        /\ target_sigs = tacfg.loaded_y
        /\ kmap = tacfg.loaded_knobs
        /\ ret.x_base = "own"
        /\ ret.y_base = "own"

\* what does hold: self.knobs is never written, and a preloaded row changes
\* only inside the window [ibgn, ibgn + chunk_size) of the row drawn
C28_OnlyTheWindow ==
    PreloadItem =>
        /\ kmap = tacfg.loaded_knobs
        /\ \A i \in 1..Len(input_sigs) : \A n \in 1..Len(input_sigs[i]) :
              (i # ret.row \/ n <= ret.ibgn \/ n > ret.ibgn + tacfg.chunk_size) =>
                  /\ input_sigs[i][n] = tacfg.loaded_x[i][n]
                  /\ target_sigs[i][n] = tacfg.loaded_y[i][n]

\* a call wrote into self.y through the skip_over copy
C28_TargetsOverwritten ==
    PreloadItem /\ ~tacfg.rerun_effect /\ ~tacfg.augment /\ ret.err = "none"
    /\ target_sigs # tacfg.loaded_y

\* a call wrote into self.x through do_augment
C28_InputsPerturbed ==
    PreloadItem /\ ~tacfg.rerun_effect /\ tacfg.skip_over = 0 /\ ret.err = "none"
    /\ input_sigs # tacfg.loaded_x

\* a spikes generator returned or raised
SpikesCall == ret.done /\ ret.op \in {"spikes", "gen_input_sample_5"}

\* C30: in both spikes generators the three indices loc-1, loc, loc+1 of
\* every spike lie in [0, len(t)-1]: no write is out of range and none
\* wraps to the end of the array through a negative index.
C30_Original ==
    SpikesCall =>
        /\ ret.err = "none"
        /\ \A k \in 1..Len(ret.locs) :
              ret.locs[k] - 1 >= 0 /\ ret.locs[k] + 1 <= ret.n - 1

\* what does hold: the older generator never raises, its loc lies in
\* [-1, len(t)-2]; spikes has loc >= -1 for t[-1] > 0 and raises IndexError
\* only if some loc + 1 is past the end
C30_LocRange ==
    SpikesCall =>
        /\ \A k \in 1..Len(ret.locs) : ret.locs[k] >= -1
        /\ ret.op = "gen_input_sample_5" =>
              /\ ret.err = "none"
              /\ \A k \in 1..Len(ret.locs) : ret.locs[k] <= ret.n - 2
        /\ ret.err = "IndexError" =>
              \E k \in 1..Len(ret.locs) : ret.locs[k] + 1 > ret.n - 1

\* a spike wrapped around: loc = 0 wrote its left neighbour to the last sample
C30_Wrapped ==
    SpikesCall /\ ret.err = "none" /\ ret.locs = <<0>>
    /\ ret.x[1] \in {Rat(-7, 10), Rat(-1, 2)}
    /\ ret.x[ret.n] = RDiv(ret.x[1], I(2))

====
